---- MODULE Spec2Model ----
(***************************************************************************)
(* Deposit settlement pipeline of the Perp repository:                     *)
(*   - the deposit monitor worker (src/src/workers/deposit-monitor.ts):    *)
(*     scanForNewDeposits followed by processPendingDeposits, started by   *)
(*     setInterval, so two invocations may overlap;                        *)
(*   - the POST /api/deposit/verify handler                                *)
(*     (src/src/api/routes/orderly-order.ts, lines 322-459);               *)
(*   - the store operations of DbService (src/src/services/db.service.ts); *)
(*   - the chain reads of BlockchainService (src/unnamed/part_000).        *)
(*   - the retry loop of OrderlyApiClient.request                          *)
(*     (src/src/services/orderly-client/orderly-api.ts, lines 212-292).    *)
(* Every await that reads or writes the shared store or the chain is one   *)
(* step; local computation is folded into the step that follows it.        *)
(***************************************************************************)
EXTENDS Integers, Sequences, FiniteSets, TLC

\* ---------------------------------------------------------------- bounds

\* Transfers are mined in the first MaxMineBlock blocks.
MaxMineBlock == 1
\* Times the chain is seen to grow by blocks that carry no transfer.
MaxAdvances == 3
\* creditUserDeposit writes made for one record.
MaxCredits == 2

\* Largest maxRetries an OrderlyApiClient is configured with.
MaxConfigRetries == 5

\* Transaction hashes of transfers to the custodial address.
TxHashes == {"t1"}
\* Overlapping invocations of monitorDeposits (setInterval does not await).
Monitors == {"m1", "m2"}
\* In-flight POST /api/deposit/verify requests.
Verifiers == {"v1"}
\* Registered users (ids); the empty string is "no owner".
Users == {"u1"}
NoUser == ""

\* ------------------------------------------------------ program constants

CONFIRMATIONS_REQUIRED == 12
MIN_DEPOSIT == 10

\* Transfer amounts the chain may carry: one below the minimum, one at it.
Amounts == {MIN_DEPOSIT - 1, MIN_DEPOSIT}
\* Block-height increments between two observations of the chain.
BlockSteps == {1, CONFIRMATIONS_REQUIRED - 1}

VARIABLES
    block,      \* blockchainService.getCurrentBlock()
    chain,      \* txHash -> the mined transfer, or NotMined
    cursor,     \* platformWallet.lastScannedBlock
    deposits,   \* the deposits collection: sequence of records, id = index
    users,      \* the users collection: id -> [internalBalance, totalDeposits]
    mpc,        \* monitor invocation -> position
    mloc,       \* monitor invocation -> local variables
    vpc,        \* verify request -> position
    vloc,       \* verify request -> local variables
    credits,    \* per record id: creditUserDeposit writes made for it
    mirrors,    \* per record id: successful creditAccountBalance calls
    alerts,     \* record ids for which the admin alert was logged
    advances,   \* growths of the chain so far
    faulted,    \* a handler was aborted or the operator reset a record
    req,        \* a call of OrderlyApiClient.request: loop state and outcome
    clock,      \* Date.now() of the server process, in ms
    auth,       \* calls of OrderlyAuth.generateAuthHeaders: call -> locals
    keys,       \* users/{accountId}.orderlyKey: the stored signing key
    ord,        \* an order placement: key lookup, venue calls, outcome
    typed,      \* the last call of wallet._signTypedData and who made it
    ids,        \* calls of OrderlyWallet.calculateAccountId: call -> locals
    keyExports, \* the key_exports document of one secretPath, and its reads
    gets,       \* GET /api/export/:secretPath requests: request -> locals
    timeline,   \* the bot's mentions and the processed_tweets collection
    polls,      \* invocations of pollTwitter: invocation -> locals
    trading,    \* the user's balance, saved volume, open positions, orders
    box,        \* a call of encrypt and the call of decrypt on its result
    placing,    \* OrderlyServiceV2's shared client: this.auth and its callers
    exporting,  \* a pending export, the tweets about it, the export monitor
    keygen      \* a registration or key generation, and the venue's key set

\* the tweet listener
listener == <<timeline, polls, trading>>

\* the workers and services beside the deposit pipeline and the venue client
services == <<listener, box, placing, exporting, keygen>>

vars == <<block, chain, cursor, deposits, users, mpc, mloc, vpc, vloc,
          credits, mirrors, alerts, advances, faulted, req, clock, auth,
          keys, ord, typed, ids, keyExports, gets, services>>

\* the deposit pipeline
pipeline == <<block, chain, cursor, deposits, users, mpc, mloc, vpc, vloc,
              credits, mirrors, alerts, advances, faulted>>

\* the venue client and what it signs with
venueClient == <<req, clock, auth, keys, ord, typed, ids, keyExports, gets>>

\* all that the deposit pipeline leaves alone
venue == <<venueClient, services>>

store == <<deposits, users, cursor>>
ghosts == <<credits, mirrors, alerts>>
env == <<block, chain, advances, faulted>>

NotMined == [mined |-> FALSE, blockNumber |-> 0, amount |-> 0]

NoRec == [userId |-> NoUser, txHash |-> "", amount |-> 0, blockNumber |-> 0,
          confirmations |-> 0, requiredConfirmations |-> 0, status |-> "none",
          orderlyConfirmed |-> FALSE, retryCount |-> 0, errorMessage |-> FALSE]

NoSnap == [id |-> 0, rec |-> NoRec]

\* a user document as a handler read it
NoUserDoc == [internalBalance |-> 0, totalDeposits |-> 0]

\* no response received yet
NoResponse == [kind |-> "none", code |-> 0, skew |-> FALSE]

\* Timestamp validation window: 300 seconds
TIMESTAMP_WINDOW_MS == 300 * 1000

\* concurrent calls of generateAuthHeaders
AuthCalls == {"a1", "a2"}

\* no signature produced
NoSignature == [key |-> "", message |-> ""]

\* no call in progress
AuthIdle == [pc |-> "idle", method |-> "", path |-> "", body |-> <<>>,
             timestamp |-> 0, now |-> 0, canonical |-> "",
             signature |-> NoSignature, err |-> "none"]

\* config.maxRetries when the configuration does not set it
Undefined == [set |-> FALSE, value |-> 0]

\* this.maxRetries = config.maxRetries || 3
maxRetries(config) ==
    IF ~config.set \/ config.value = 0 THEN 3 ELSE config.value

\* a client constructed with config.maxRetries = config, no call of request
\* in progress
ReqNew(config) ==
    [pc |-> "idle", cfg |-> config, max |-> maxRetries(config), attempt |-> 0,
     sent |-> 0, last |-> NoResponse, delay |-> 0, err |-> "none"]

\* the clients the routes construct: new OrderlyApiClient({baseUrl, auth})
ReqIdle == ReqNew(Undefined)

MonIdle == [from |-> 0, to |-> 0, todo |-> <<>>, pend |-> <<>>,
            cur |-> NoSnap, conf |-> 0, user |-> NoUserDoc]

VerIdle == [tx |-> "", user |-> NoUser, amount |-> 0, blockNumber |-> 0,
            conf |-> 0, id |-> 0, doc |-> NoUserDoc, resp |-> "none"]

Ids == 1..Len(deposits)

\* ------------------------------------------------------------- DbService

\* getDepositByTxHash: is there a record with this hash
getDepositByTxHash(t) == {i \in Ids : deposits[i].txHash = t}

\* getPendingDeposits: status in [pending, confirmed], orderlyConfirmed == false
IsPendingDeposit(d) ==
    d.status \in {"pending", "confirmed"} /\ d.orderlyConfirmed = FALSE

RECURSIVE SnapsFrom(_)
SnapsFrom(i) ==
    IF i > Len(deposits) THEN <<>>
    ELSE IF IsPendingDeposit(deposits[i])
         THEN <<[id |-> i, rec |-> deposits[i]]>> \o SnapsFrom(i + 1)
         ELSE SnapsFrom(i + 1)

getPendingDeposits == SnapsFrom(1)

\* updateDepositStatus(id, status, updateData): an unconditional document update
updateDepositStatus(id, fields) ==
    [deposits EXCEPT ![id] = [f \in DOMAIN @ |->
        IF f \in DOMAIN fields THEN fields[f] ELSE @[f]]]

\* creditUserDeposit's write: the user document read earlier plus the amount
creditedUser(u, doc, amount) ==
    [users EXCEPT ![u] = [internalBalance |-> doc.internalBalance + amount,
                          totalDeposits |-> doc.totalDeposits + amount]]

\* ----------------------------------------------------- BlockchainService

\* confirmations = currentBlock - blockNumber
Confirmations(currentBlock, blockNumber) == currentBlock - blockNumber

\* faulty variant: the threshold test is off by one
IsConfirmedEarly(c, required) == c >= required - 1

\* confirmations >= CONFIRMATIONS_REQUIRED
IsConfirmed(c, required) == c >= required

StatusFor(c) == IF IsConfirmed(c, CONFIRMATIONS_REQUIRED) THEN "confirmed" ELSE "pending"

\* scanForDeposits(address, fromBlock, toBlock): transfer events in block order
RECURSIVE EventsIn(_, _)
EventsIn(from, to) ==
    IF from > to THEN <<>>
    ELSE LET here == {t \in DOMAIN chain : chain[t].mined /\ chain[t].blockNumber = from}
         IN  (IF here = {} THEN <<>>
              ELSE LET t == CHOOSE x \in here : TRUE
                   IN  <<[txHash |-> t, amount |-> chain[t].amount,
                          blockNumber |-> chain[t].blockNumber]>>)
             \o EventsIn(from + 1, to)

\* ------------------------------------------------------------------ Init

InitDeposits ==
    /\ block = 0
    /\ chain = [t \in TxHashes |-> NotMined]
    /\ cursor = 0
    /\ deposits = <<>>
    /\ users = [u \in Users |-> NoUserDoc]
    /\ mpc = [m \in Monitors |-> "idle"]
    /\ mloc = [m \in Monitors |-> MonIdle]
    /\ vpc = [v \in Verifiers |-> "idle"]
    /\ vloc = [v \in Verifiers |-> VerIdle]
    /\ credits = <<>>
    /\ mirrors = <<>>
    /\ alerts = {}
    /\ advances = 0
    /\ faulted = FALSE

\* users/{accountId}.orderlyKey is missing
NoKey == [stored |-> FALSE, scope |-> "", expirationTimestamp |-> 0]

\* no order placement in progress
OrdIdle ==
    [pc |-> "idle", via |-> "", keyData |-> NoKey, keyInfo |-> NoKey,
     lookedAt |-> 0, signedAt |-> <<>>, status |-> "none"]

\* nothing has been signed as typed data
TypedIdle ==
    [by |-> "none", primaryType |-> "",
     domain |-> [name |-> "", version |-> "", chainId |-> 0,
                 verifyingContract |-> ""],
     types |-> <<>>, message |-> <<>>, signature |-> <<>>]

\* two calls of calculateAccountId, none made yet
IdCalls == {"i1", "i2"}
IdIdle == [done |-> FALSE, walletAddress |-> <<>>, brokerId |-> <<>>,
           accountId |-> <<>>]

\* key_exports/{secretPath} does not exist
NoExport == [exists |-> FALSE, privateKey |-> "", expiresAt |-> 0,
             accessed |-> FALSE]

\* two requests for the same secretPath, none in progress
Getters == {"g1", "g2"}
GetIdle == [pc |-> "idle", keyExport |-> NoExport, status |-> 0,
            privateKey |-> ""]

\* nothing encrypted yet
NoEnvelope == [iv |-> <<>>, encrypted |-> <<>>, tag |-> <<>>]
BoxIdle == [pc |-> "idle", plaintext |-> <<>>, envelope |-> NoEnvelope,
            decrypted |-> <<>>]

\* invocations of pollTwitter, none in progress
Pollers == {"p1", "p2"}
PollIdle == [pc |-> "idle", i |-> 0]

\* one mention of a registered user holding the minimum deposit; nothing
\* processed, no order placed
\* the two accounts whose orders go through the service, and its callers
Accounts == {"A", "B"}
PlaceCalls == {"c1", "c2"}

\* private auth?: OrderlyAuth, before the first setAuth
NoAuth == "none"

\* no placeOrder call in progress
PlaceIdle == [pc |-> "idle", account |-> NoAuth, attempt |-> 0, signer |-> NoAuth]

\* export monitor invocations (setInterval does not await) and the tweets
\* that carry the export code
ExportMonitors == {"e1", "e2"}
ExportTweets == <<"x1", "x2">>

\* no invocation of monitorExports in progress
ExpIdle == [pc |-> "idle", tweets |-> <<>>, i |-> 0]

\* the service and workers at rest: no auth set, one pending export whose
\* code has not been tweeted, no key accepted by the venue
InitWorkers ==
    /\ placing = [auth |-> NoAuth, calls |-> [c \in PlaceCalls |-> PlaceIdle],
                  sent |-> {}]
    /\ exporting = [status |-> "pending", expiresAt |-> 1, now |-> 0,
                    mentions |-> 0, processed |-> {}, created |-> 0,
                    mons |-> [m \in ExportMonitors |-> ExpIdle],
                    lis |-> ExpIdle]
    /\ keygen = [pc |-> "idle", route |-> "", scope |-> "", days |-> 0,
                 made |-> 0, stored |-> 0, accepted |-> {}]

InitListener ==
    /\ timeline = [mentions |-> <<"tw1">>, processed |-> {}, faults |-> 0]
    /\ polls = [p \in Pollers |-> PollIdle]
    /\ trading = [internalBalance |-> MIN_DEPOSIT, volume |-> 0, open |-> {},
                  orders |-> <<>>, last |-> 0]

\* no client call in progress; the clock reads 0; no key stored
InitVenue ==
    /\ clock = 0
    /\ auth = [c \in AuthCalls |-> AuthIdle]
    /\ keys = NoKey
    /\ ord = OrdIdle
    /\ typed = TypedIdle
    /\ ids = [c \in IdCalls |-> IdIdle]
    /\ keyExports = [doc |-> NoExport, created |-> FALSE, served |-> 0]
    /\ gets = [g \in Getters |-> GetIdle]
    /\ InitListener
    /\ box = BoxIdle
    /\ InitWorkers

Init ==
    /\ InitDeposits
    /\ req = ReqIdle
    /\ InitVenue

\* ----------------------------------------------------------------- chain

\* A transfer of amt to the custodial address is mined in a new block.
Mine(t, amt) ==
    /\ ~chain[t].mined
    /\ block < MaxMineBlock
    /\ block' = block + 1
    /\ chain' = [chain EXCEPT ![t] = [mined |-> TRUE, blockNumber |-> block + 1,
                                      amount |-> amt]]
    /\ UNCHANGED <<store, mpc, mloc, vpc, vloc, ghosts, advances, faulted, venue>>

\* The chain grows by k blocks that carry no transfer.
Advance(k) ==
    /\ advances < MaxAdvances
    /\ advances' = advances + 1
    /\ block' = block + k
    /\ UNCHANGED <<chain, store, mpc, mloc, vpc, vloc, ghosts, faulted, venue>>

\* ------------------------------------------- monitor: scanForNewDeposits

MonUnchanged == UNCHANGED <<vpc, vloc, env, venue>>

SetMon(m, pc, loc) ==
    /\ mpc' = [mpc EXCEPT ![m] = pc]
    /\ mloc' = [mloc EXCEPT ![m] = loc]

\* setInterval fires: "m1" is a tick that starts while no other runs, "m2"
\* one that starts while another is still running.
MayStart(m) ==
    (m = "m2") = (\E o \in Monitors \ {m} : mpc[o] # "idle")

\* getPlatformWallet: fromBlock = lastScannedBlock + 1
ScanGetWallet(m) ==
    /\ mpc[m] = "idle"
    /\ MayStart(m)
    /\ SetMon(m, "scan_block", [MonIdle EXCEPT !.from = cursor + 1])
    /\ UNCHANGED <<store, ghosts>>
    /\ MonUnchanged

\* getCurrentBlock, the early return, and scanForDeposits (which returns []
\* when the event query throws)
ScanGetBlock(m) ==
    /\ mpc[m] = "scan_block"
    /\ IF mloc[m].from > block
       THEN SetMon(m, "proc_get", MonIdle)
       ELSE \E rpcOk \in BOOLEAN :
                SetMon(m, "scan_loop",
                       [MonIdle EXCEPT !.to = block,
                            !.todo = IF rpcOk THEN EventsIn(mloc[m].from, block)
                                     ELSE <<>>])
    /\ UNCHANGED <<store, ghosts>>
    /\ MonUnchanged

\* the record scanForNewDeposits creates for a sighted transfer
ScanRecord(e, currentBlock) ==
    [userId |-> NoUser, txHash |-> e.txHash, amount |-> e.amount,
     blockNumber |-> e.blockNumber,
     confirmations |-> Confirmations(currentBlock, e.blockNumber),
     requiredConfirmations |-> CONFIRMATIONS_REQUIRED,
     status |-> StatusFor(Confirmations(currentBlock, e.blockNumber)),
     orderlyConfirmed |-> FALSE, retryCount |-> 0, errorMessage |-> FALSE]

\* faulty variant: the scanner does not look for an existing record
ScanExistingNever(t) == FALSE

\* the scanner's "already processed" test on what getDepositByTxHash returned
ScanExisting(t) == getDepositByTxHash(t) # {}

\* faulty variant: no minimum amount
TooSmallNever(amount) == FALSE

\* the minimum-amount test
TooSmall(amount) == amount < MIN_DEPOSIT

\* for (deposit of deposits): getDepositByTxHash, then the minimum test
ScanCheck(m) ==
    /\ mpc[m] = "scan_loop"
    /\ mloc[m].todo # <<>>
    /\ LET e == Head(mloc[m].todo)
       IN  IF ScanExisting(e.txHash) \/ TooSmall(e.amount)
           THEN SetMon(m, "scan_loop", [mloc[m] EXCEPT !.todo = Tail(@)])
           ELSE SetMon(m, "scan_create", mloc[m])
    /\ UNCHANGED <<store, ghosts>>
    /\ MonUnchanged

\* createDeposit: collection.add, a new document whatever the hash
ScanCreate(m) ==
    /\ mpc[m] = "scan_create"
    /\ deposits' = Append(deposits, ScanRecord(Head(mloc[m].todo), mloc[m].to))
    /\ credits' = Append(credits, 0)
    /\ mirrors' = Append(mirrors, 0)
    /\ SetMon(m, "scan_loop", [mloc[m] EXCEPT !.todo = Tail(@)])
    /\ UNCHANGED <<users, cursor, alerts>>
    /\ MonUnchanged

\* updatePlatformWalletBlock(platformWallet.id, toBlock)
ScanUpdateCursor(m) ==
    /\ mpc[m] = "scan_loop"
    /\ mloc[m].todo = <<>>
    /\ cursor' = mloc[m].to
    /\ SetMon(m, "proc_get", MonIdle)
    /\ UNCHANGED <<deposits, users, ghosts>>
    /\ MonUnchanged


\* --------------------------------------- monitor: processPendingDeposits

\* faulty variant: the tick ends with the record it holds
NextPendingStop(m) == SetMon(m, "idle", MonIdle)

\* leave the for-loop body: next record, or return when the list is done
NextPending(m) ==
    LET rest == Tail(mloc[m].pend)
    IN  IF rest = <<>> THEN SetMon(m, "idle", MonIdle)
        ELSE SetMon(m, "proc_loop",
                    [MonIdle EXCEPT !.pend = rest])

\* getPendingDeposits, and the return when nothing is pending
ProcGetPending(m) ==
    /\ mpc[m] = "proc_get"
    /\ IF getPendingDeposits = <<>>
       THEN SetMon(m, "idle", MonIdle)
       ELSE SetMon(m, "proc_loop", [MonIdle EXCEPT !.pend = getPendingDeposits])
    /\ UNCHANGED <<store, ghosts>>
    /\ MonUnchanged

\* faulty variant: records without owner are not skipped
HasOwnerAny(d) == TRUE

\* if (!deposit.userId) continue
HasOwner(d) == d.userId # NoUser

\* the skip of unowned records, getTransaction (null when the RPC call
\* fails) and getCurrentBlock
ProcGetTx(m) ==
    /\ mpc[m] = "proc_loop"
    /\ LET s == Head(mloc[m].pend)
       IN  IF ~HasOwner(s.rec)
           THEN NextPending(m)
           ELSE \E rpcOk \in BOOLEAN :
                    IF rpcOk
                    THEN SetMon(m, "proc_update",
                                [mloc[m] EXCEPT !.cur = s,
                                     !.conf = Confirmations(block,
                                                  chain[s.rec.txHash].blockNumber)])
                    ELSE NextPending(m)
    /\ UNCHANGED <<store, ghosts>>
    /\ MonUnchanged

\* faulty variant: the confirmation update never changes the status
UpdatedStatusKeep(d, conf) == d.status

\* the status the confirmation update writes: confirmed for a pending record
\* that reached the threshold, else the status read at the start of the tick
UpdatedStatus(d, conf) ==
    IF IsConfirmed(conf, d.requiredConfirmations) /\ d.status = "pending"
    THEN "confirmed" ELSE d.status

\* faulty variant: the crediting test reads the stored status
CreditableStored(d, conf) ==
    d.status = "confirmed" /\ ~d.orderlyConfirmed

\* Credit if confirmed but not yet credited
Creditable(d, conf) ==
    IsConfirmed(conf, d.requiredConfirmations) /\ ~d.orderlyConfirmed

\* if (confirmations !== deposit.confirmations) updateDepositStatus(...),
\* then the test of the crediting branch
ProcUpdate(m) ==
    /\ mpc[m] = "proc_update"
    /\ LET s == mloc[m].cur
           conf == mloc[m].conf
       IN  /\ deposits' =
                 IF conf # s.rec.confirmations
                 THEN updateDepositStatus(s.id,
                          [status |-> UpdatedStatus(s.rec, conf),
                           confirmations |-> conf])
                 ELSE deposits
           /\ IF Creditable(s.rec, conf)
              THEN SetMon(m, "proc_credit", mloc[m])
              ELSE NextPending(m)
    /\ UNCHANGED <<users, cursor, ghosts>>
    /\ MonUnchanged

\* getUserById and creditUserDeposit's own read of the user; either may throw
ProcCreditRead(m) ==
    /\ mpc[m] = "proc_credit"
    /\ \E ok \in BOOLEAN :
           IF ok /\ mloc[m].cur.rec.userId \in Users
           THEN SetMon(m, "proc_credit_write",
                       [mloc[m] EXCEPT !.user = users[mloc[m].cur.rec.userId]])
           ELSE SetMon(m, "proc_fail", mloc[m])
    /\ UNCHANGED <<store, ghosts>>
    /\ MonUnchanged

\* creditUserDeposit's update of internalBalance and totalDeposits
ProcCreditWrite(m) ==
    /\ mpc[m] = "proc_credit_write"
    /\ credits[mloc[m].cur.id] < MaxCredits
    /\ LET s == mloc[m].cur
       IN  /\ users' = creditedUser(s.rec.userId, mloc[m].user, s.rec.amount)
           /\ credits' = [credits EXCEPT ![s.id] = @ + 1]
    /\ SetMon(m, "proc_mirror", mloc[m])
    /\ UNCHANGED <<deposits, cursor, mirrors, alerts>>
    /\ MonUnchanged

\* decrypt and orderlyService.creditAccountBalance; either may throw
ProcMirror(m) ==
    /\ mpc[m] = "proc_mirror"
    /\ \E ok \in BOOLEAN :
           IF ok
           THEN /\ mirrors' = [mirrors EXCEPT ![mloc[m].cur.id] = @ + 1]
                /\ SetMon(m, "proc_mark", mloc[m])
           ELSE /\ mirrors' = mirrors
                /\ SetMon(m, "proc_fail", mloc[m])
    /\ UNCHANGED <<store, credits, alerts>>
    /\ MonUnchanged

\* faulty variant: the success path sets the flag and leaves the status alone
CreditedFieldsFlagOnly == [orderlyConfirmed |-> TRUE]

\* what the success path writes
CreditedFields == [status |-> "credited", orderlyConfirmed |-> TRUE]

\* updateDepositStatus(deposit.id, 'credited', {orderlyConfirmed: true})
ProcMarkCredited(m) ==
    /\ mpc[m] = "proc_mark"
    /\ deposits' = updateDepositStatus(mloc[m].cur.id, CreditedFields)
    /\ NextPending(m)
    /\ UNCHANGED <<users, cursor, ghosts>>
    /\ MonUnchanged

\* faulty variant: the catch block records the error and leaves the status alone
FailedFieldsKeepStatus(retryCount) ==
    [errorMessage |-> TRUE, retryCount |-> retryCount]

\* what the catch block writes: status, errorMessage, retryCount
FailedFields(retryCount) ==
    [status |-> "failed", errorMessage |-> TRUE, retryCount |-> retryCount]

\* if (deposit.retryCount >= 3) console.error(ALERT)
ALERT_THRESHOLD == 3
AlertDue(d) == d.retryCount >= ALERT_THRESHOLD

\* catch (creditError): updateDepositStatus(deposit.id, 'failed', ...), alert
ProcFail(m) ==
    /\ mpc[m] = "proc_fail"
    /\ LET s == mloc[m].cur
       IN  /\ deposits' = updateDepositStatus(s.id, FailedFields(s.rec.retryCount + 1))
           /\ alerts' = IF AlertDue(s.rec) THEN alerts \cup {s.id} ELSE alerts
    /\ NextPending(m)
    /\ UNCHANGED <<users, cursor, credits, mirrors>>
    /\ MonUnchanged

MonitorStep(m) ==
    \/ ScanGetWallet(m)
    \/ ScanGetBlock(m)
    \/ ScanCheck(m)
    \/ ScanCreate(m)
    \/ ScanUpdateCursor(m)
    \/ ProcGetPending(m)
    \/ ProcGetTx(m)
    \/ ProcUpdate(m)
    \/ ProcCreditRead(m)
    \/ ProcCreditWrite(m)
    \/ ProcMirror(m)
    \/ ProcMarkCredited(m)
    \/ ProcFail(m)


\* ------------------------------------------ POST /api/deposit/verify

\* Twitter handles a request may carry: the registered users and a stranger.
Handles == Users \cup {"nobody"}

VerUnchanged == UNCHANGED <<mpc, mloc, env, venue>>

SetVer(v, pc, loc) ==
    /\ vpc' = [vpc EXCEPT ![v] = pc]
    /\ vloc' = [vloc EXCEPT ![v] = loc]

\* res.json / res.status(..).json: the handler's answer
Respond(v, resp) ==
    SetVer(v, "respond", [VerIdle EXCEPT !.tx = vloc[v].tx, !.resp = resp])

\* the handler's "already processed" test on what getDepositByTxHash returned
VerifyExisting(t) == getDepositByTxHash(t) # {}

\* getUserByHandle (404 when unknown), then getDepositByTxHash (400 when found)
VerifyStart(v, h, t) ==
    /\ vpc[v] = "idle"
    /\ IF h \notin Users
       THEN SetVer(v, "respond", [VerIdle EXCEPT !.tx = t, !.resp = "user_not_found"])
       ELSE IF VerifyExisting(t)
       THEN SetVer(v, "respond", [VerIdle EXCEPT !.tx = t, !.resp = "already_processed"])
       ELSE SetVer(v, "ver_chain", [VerIdle EXCEPT !.tx = t, !.user = h])
    /\ UNCHANGED <<store, ghosts>>
    /\ VerUnchanged

\* getPlatformWallet and verifyUSDCDeposit(txHash, address, 10): null when the
\* receipt is missing, the RPC call throws or the amount is below the minimum
VerifyChain(v) ==
    /\ vpc[v] = "ver_chain"
    /\ LET tx == chain[vloc[v].tx]
       IN  \E rpcOk \in BOOLEAN :
               IF rpcOk /\ tx.mined /\ ~TooSmall(tx.amount)
               THEN SetVer(v, "ver_create",
                           [vloc[v] EXCEPT !.amount = tx.amount,
                                !.blockNumber = tx.blockNumber,
                                !.conf = Confirmations(block, tx.blockNumber)])
               ELSE Respond(v, "invalid")
    /\ UNCHANGED <<store, ghosts>>
    /\ VerUnchanged

\* the record the handler creates for the requesting user
VerifyRecord(l) ==
    [userId |-> l.user, txHash |-> l.tx, amount |-> l.amount,
     blockNumber |-> l.blockNumber, confirmations |-> l.conf,
     requiredConfirmations |-> CONFIRMATIONS_REQUIRED,
     status |-> StatusFor(l.conf),
     orderlyConfirmed |-> FALSE, retryCount |-> 0, errorMessage |-> FALSE]

\* createDeposit, then "If confirmed, process immediately"
VerifyCreate(v) ==
    /\ vpc[v] = "ver_create"
    /\ deposits' = Append(deposits, VerifyRecord(vloc[v]))
    /\ credits' = Append(credits, 0)
    /\ mirrors' = Append(mirrors, 0)
    /\ IF IsConfirmed(vloc[v].conf, CONFIRMATIONS_REQUIRED)
       THEN SetVer(v, "ver_credit", [vloc[v] EXCEPT !.id = Len(deposits) + 1])
       ELSE Respond(v, "pending")
    /\ UNCHANGED <<users, cursor, alerts>>
    /\ VerUnchanged

\* creditUserDeposit's read of the user; it may throw
VerifyCreditRead(v) ==
    /\ vpc[v] = "ver_credit"
    /\ \E ok \in BOOLEAN :
           IF ok
           THEN SetVer(v, "ver_credit_write",
                       [vloc[v] EXCEPT !.doc = users[vloc[v].user]])
           ELSE SetVer(v, "ver_fail", vloc[v])
    /\ UNCHANGED <<store, ghosts>>
    /\ VerUnchanged

\* creditUserDeposit's update of internalBalance and totalDeposits
VerifyCreditWrite(v) ==
    /\ vpc[v] = "ver_credit_write"
    /\ users' = creditedUser(vloc[v].user, vloc[v].doc, vloc[v].amount)
    /\ credits' = [credits EXCEPT ![vloc[v].id] = @ + 1]
    /\ SetVer(v, "ver_mirror", vloc[v])
    /\ UNCHANGED <<deposits, cursor, mirrors, alerts>>
    /\ VerUnchanged

\* decrypt and orderlyService.creditAccountBalance; either may throw
VerifyMirror(v) ==
    /\ vpc[v] = "ver_mirror"
    /\ \E ok \in BOOLEAN :
           IF ok
           THEN /\ mirrors' = [mirrors EXCEPT ![vloc[v].id] = @ + 1]
                /\ SetVer(v, "ver_mark", vloc[v])
           ELSE /\ mirrors' = mirrors
                /\ SetVer(v, "ver_fail", vloc[v])
    /\ UNCHANGED <<store, credits, alerts>>
    /\ VerUnchanged

\* updateDepositStatus(deposit.id, 'credited', {orderlyConfirmed: true})
VerifyMarkCredited(v) ==
    /\ vpc[v] = "ver_mark"
    /\ deposits' = updateDepositStatus(vloc[v].id, CreditedFields)
    /\ Respond(v, "credited")
    /\ UNCHANGED <<users, cursor, ghosts>>
    /\ VerUnchanged

\* catch (creditError): updateDepositStatus(deposit.id, 'failed', {retryCount: 1})
VerifyFail(v) ==
    /\ vpc[v] = "ver_fail"
    /\ deposits' = updateDepositStatus(vloc[v].id, FailedFields(1))
    /\ Respond(v, "credit_failed")
    /\ UNCHANGED <<users, cursor, ghosts>>
    /\ VerUnchanged

\* the response is sent; the handler is gone
VerifyReturn(v) ==
    /\ vpc[v] = "respond"
    /\ SetVer(v, "idle", VerIdle)
    /\ UNCHANGED <<store, ghosts>>
    /\ VerUnchanged

VerifyStep(v) ==
    \/ \E h \in Handles, t \in DOMAIN chain : VerifyStart(v, h, t)
    \/ VerifyChain(v)
    \/ VerifyCreate(v)
    \/ VerifyCreditRead(v)
    \/ VerifyCreditWrite(v)
    \/ VerifyMirror(v)
    \/ VerifyMarkCredited(v)
    \/ VerifyFail(v)
    \/ VerifyReturn(v)

\* ------------------------------------------------ operator and failures

\* "Retry Failed Deposits": updateDepositStatus(id, 'confirmed',
\* {retryCount: 0, errorMessage: null}) on a failed record
ResetFields == [status |-> "confirmed", retryCount |-> 0, errorMessage |-> FALSE]

OperatorReset(i) ==
    /\ deposits[i].status = "failed"
    /\ deposits' = updateDepositStatus(i, ResetFields)
    /\ faulted' = TRUE
    /\ UNCHANGED <<users, cursor, mpc, mloc, vpc, vloc, ghosts, block, chain, advances, venue>>

\* The worker process dies (or a tick is abandoned) in the middle of a tick:
\* nothing more is written by it.
WorkerCrash ==
    /\ \E m \in Monitors : mpc[m] # "idle"
    /\ mpc' = [m \in Monitors |-> "idle"]
    /\ mloc' = [m \in Monitors |-> MonIdle]
    /\ faulted' = TRUE
    /\ UNCHANGED <<store, vpc, vloc, ghosts, block, chain, advances, venue>>

\* The API process dies in the middle of a request.
ApiCrash ==
    /\ \E v \in Verifiers : vpc[v] \notin {"idle", "respond"}
    /\ vpc' = [v \in Verifiers |-> "idle"]
    /\ vloc' = [v \in Verifiers |-> VerIdle]
    /\ faulted' = TRUE
    /\ UNCHANGED <<store, mpc, mloc, ghosts, block, chain, advances, venue>>

\* ------------------------------------------------------- specifications

ChainStep ==
    \/ \E t \in TxHashes, amt \in Amounts : Mine(t, amt)
    \/ \E k \in BlockSteps : Advance(k)

NoMonitor == \A m \in Monitors : mpc[m] = "idle"
NoVerifier == \A v \in Verifiers : vpc[v] = "idle"
AllIdle == NoMonitor /\ NoVerifier

\* The worker and the API server are separate processes over one store: a
\* tick of the worker and a verify request interleave at every await.
Next ==
    \/ ChainStep
    \/ MonitorStep("m1")
    \/ \E v \in Verifiers : VerifyStep(v)
    \/ \E i \in Ids : OperatorReset(i)
    \/ WorkerCrash
    \/ ApiCrash

Spec == Init /\ [][Next]_vars

\* setInterval starts a tick whether or not the previous one has returned:
\* two ticks of the worker interleave at every await. Verify requests are
\* served between ticks.
NextOverlap ==
    \/ ChainStep
    \/ \E m \in Monitors : NoVerifier /\ MonitorStep(m)
    \/ \E v \in Verifiers : NoMonitor /\ VerifyStep(v)
    \/ \E i \in Ids : OperatorReset(i)
    \/ WorkerCrash
    \/ ApiCrash

SpecOverlap == Init /\ [][NextOverlap]_vars

\* One handler at a time: a tick or a request runs to its end (or dies)
\* before another starts. The chain moves freely.
NextSeq ==
    \/ ChainStep
    \/ NoVerifier /\ MonitorStep("m1")
    \/ \E v \in Verifiers : NoMonitor /\ VerifyStep(v)
    \/ \E i \in Ids : AllIdle /\ OperatorReset(i)
    \/ WorkerCrash
    \/ ApiCrash

SpecSeq == Init /\ [][NextSeq]_vars

\* getTransaction returns the receipt (the RPC call succeeds)
ProcTxFound(m) == ProcGetTx(m) /\ mpc'[m] = "proc_update"

\* a verify request that was received is served to its end
VerifyProgress(v) == vpc[v] # "idle" /\ VerifyStep(v)

\* One handler at a time, nothing is aborted and nothing reset; the timer
\* keeps firing, a handler that started runs on, and the receipt lookup of a
\* record does not fail on every tick.
NextLive ==
    \/ ChainStep
    \/ NoVerifier /\ MonitorStep("m1")
    \/ \E v \in Verifiers : NoMonitor /\ VerifyStep(v)

SpecLive ==
    /\ Init
    /\ [][NextLive]_vars
    /\ SF_vars(NoVerifier /\ MonitorStep("m1"))
    /\ SF_vars(NoVerifier /\ ProcTxFound("m1"))
    /\ \A v \in Verifiers : WF_vars(NoMonitor /\ VerifyProgress(v))

\* Two transfers of one user, both 12 blocks deep: the first was verified
\* when it was one block old (its record is pending), the second has not
\* been submitted yet. The worker has not completed a tick since.
LedgerHashes == {"t1", "t2"}

LedgerTransfer(t) ==
    [mined |-> TRUE, blockNumber |-> IF t = "t1" THEN 1 ELSE 2,
     amount |-> MIN_DEPOSIT]

InitLedger ==
    /\ block = 2 + CONFIRMATIONS_REQUIRED
    /\ chain = [t \in LedgerHashes |-> LedgerTransfer(t)]
    /\ cursor = 0
    /\ deposits = <<VerifyRecord([VerIdle EXCEPT !.tx = "t1", !.user = "u1",
                                      !.amount = MIN_DEPOSIT, !.blockNumber = 1,
                                      !.conf = 0])>>
    /\ users = [u \in Users |-> NoUserDoc]
    /\ mpc = [m \in Monitors |-> "idle"]
    /\ mloc = [m \in Monitors |-> MonIdle]
    /\ vpc = [v \in Verifiers |-> "idle"]
    /\ vloc = [v \in Verifiers |-> VerIdle]
    /\ credits = <<0>>
    /\ mirrors = <<0>>
    /\ alerts = {}
    /\ advances = MaxAdvances
    /\ faulted = FALSE
    /\ req = ReqIdle
    /\ InitVenue

\* A tick of the worker and a verify request interleave at every await; the
\* chain stands still.
NextLedger ==
    \/ MonitorStep("m1")
    \/ \E v \in Verifiers : VerifyStep(v)

SpecLedger == InitLedger /\ [][NextLedger]_vars

\* ------------------------------------------- OrderlyApiClient.request
\* (src/src/services/orderly-client/orderly-api.ts, lines 212-292)

\* OrderlyErrorCode
UNKNOWN == -1000
INVALID_SIGNATURE == -1001
UNAUTHORIZED == -1002
TOO_MANY_REQUEST == -1003
UNKNOWN_PARAM == -1004
INVALID_PARAM == -1005
DUPLICATE_REQUEST == -1007

\* error codes the venue may answer with
ErrorCodes == {UNKNOWN, INVALID_SIGNATURE, UNAUTHORIZED, TOO_MANY_REQUEST,
               UNKNOWN_PARAM, INVALID_PARAM, DUPLICATE_REQUEST}

\* What one axios.request can come back with: a success body; an HTTP error
\* response carrying {code, message} (axios rejects); a 2xx response whose
\* body has success = false and {code, message}; no usable response at all
\* (network error, timeout, unparsable error body). skew: the message
\* mentions "timestamp" or "expired".
Responses ==
    {[kind |-> "ok", code |-> 0, skew |-> FALSE],
     [kind |-> "network", code |-> 0, skew |-> FALSE]}
    \cup [kind : {"http", "body"}, code : ErrorCodes, skew : BOOLEAN]

\* isRetryableError: the code is not on the list of non-retryable codes
isRetryableError(code) ==
    code \notin {INVALID_SIGNATURE, UNAUTHORIZED, INVALID_PARAM, UNKNOWN_PARAM,
                 DUPLICATE_REQUEST}

\* isClockSkewError(code, message)
isClockSkewError(code, skew) == code = UNAUTHORIZED /\ skew

\* the catch block throws at once: only for an axios error whose response
\* body carries code and message
ThrowsAtOnce(r) ==
    /\ r.kind = "http"
    /\ ~isRetryableError(r.code) \/ isClockSkewError(r.code, r.skew)

\* the error thrown at once: the OrderlyApiError of the response (line 265)
\* or, behind it, the clock guidance (lines 269-273)
ErrorAtOnce(r) ==
    IF ~isRetryableError(r.code) THEN "orderly_error" ELSE "clock_guidance"

\* lastError after a failed attempt that is not thrown at once: the
\* OrderlyApiError built from the response, else the axios error itself
LastError(r) ==
    IF r.kind \in {"http", "body"} THEN "orderly_error" ELSE "axios_error"

Min(a, b) == IF a < b THEN a ELSE b

\* const delay = Math.min(1000 * Math.pow(2, attempt), 10000)
Backoff(attempt) == Min(1000 * 2^attempt, 10000)

ReqUnchanged == UNCHANGED <<pipeline, clock, auth, keys, ord, typed, ids, keyExports, gets, services>>

\* a caller (get, post, postAuthenticated) enters request: attempt = 0
RequestStart ==
    /\ req.pc = "idle"
    /\ req' = [ReqNew(req.cfg) EXCEPT !.pc = "try"]
    /\ ReqUnchanged

\* one pass of the for loop: axios.request, the success test on the body,
\* the catch block, and the backoff before the next attempt; when the loop
\* condition fails, throw lastError
RequestAttempt(r) ==
    /\ req.pc = "try"
    /\ req' =
         IF r.kind = "ok"
         THEN [req EXCEPT !.pc = "returned", !.sent = @ + 1, !.last = r]
         ELSE IF ThrowsAtOnce(r)
         THEN [req EXCEPT !.pc = "thrown", !.sent = @ + 1, !.last = r,
                          !.err = ErrorAtOnce(r)]
         ELSE IF req.attempt < req.max
         THEN [req EXCEPT !.attempt = @ + 1, !.sent = @ + 1, !.last = r,
                          !.delay = Backoff(req.attempt)]
         ELSE [req EXCEPT !.pc = "thrown", !.sent = @ + 1, !.last = r,
                          !.err = LastError(r)]
    /\ ReqUnchanged

\* the caller has its result or its exception
RequestDone ==
    /\ req.pc \in {"returned", "thrown"}
    /\ req' = ReqNew(req.cfg)
    /\ ReqUnchanged

NextRequest ==
    \/ RequestStart
    \/ \E r \in Responses : RequestAttempt(r)
    \/ RequestDone

\* maxRetries values a client is configured with
Configs ==
    {Undefined} \cup {[set |-> TRUE, value |-> n] : n \in 0..MaxConfigRetries}

\* a client constructed with any of the configurations; the deposit pipeline
\* at rest
InitRequest ==
    /\ InitDeposits
    /\ req \in {ReqNew(c) : c \in Configs}
    /\ InitVenue

SpecRequest == InitRequest /\ [][NextRequest]_vars

\* ----------------------------------- OrderlyAuth.generateAuthHeaders
\* (src/src/services/orderly-client/orderly-auth.ts)

\* the Ed25519 private key the OrderlyAuth object was constructed with
AuthKey == "k1"

\* HTTP methods, request paths and request bodies of the calls. A body is
\* the list of the property names of the object, in insertion order; the
\* empty list is "no body".
Methods == {"GET", "POST"}
Paths == {"/v1/order", "/v1/orders"}
Bodies == {<<>>, <<"symbol">>, <<"symbol", "side">>}

\* JSON.stringify(body): the properties in insertion order
RECURSIVE Properties(_)
Properties(b) ==
    IF b = <<>> THEN ""
    ELSE "\"" \o Head(b) \o "\":1"
         \o (IF Tail(b) = <<>> THEN "" ELSE ",") \o Properties(Tail(b))

\* const bodyString = body ? JSON.stringify(body) : undefined, and
\* `${body || ''}` in the canonical string
BodyString(b) == IF b = <<>> THEN "" ELSE "{" \o Properties(b) \o "}"

\* a faulty variant: the path is left out of the signed string
constructCanonicalStringNoPath(timestamp, method, path, body) ==
    ToString(timestamp) \o method \o BodyString(body)

\* constructCanonicalString: `${timestamp}${method}${path}${body || ''}`
constructCanonicalString(timestamp, method, path, body) ==
    ToString(timestamp) \o method \o path \o BodyString(body)

\* a faulty variant: a signature salted with the time of signing
signMessageSalted(key, message) ==
    [key |-> key, message |-> message \o ToString(clock)]

\* signMessage: the Ed25519 signature of the message bytes under the private
\* key (RFC 8032: a function of key and message), base64url encoded
signMessage(key, message) == [key |-> key, message |-> message]

Abs(x) == IF x < 0 THEN -x ELSE x

\* faulty variant: the window is closed at its end
TimestampSkewedAtWindow(now, timestamp) ==
    Abs(now - timestamp) >= TIMESTAMP_WINDOW_MS

\* validateTimestamp's test: diff > TIMESTAMP_WINDOW_MS
TimestampSkewed(now, timestamp) ==
    Abs(now - timestamp) > TIMESTAMP_WINDOW_MS

\* Clock movements of a run, and their sizes in ms.
MaxClockJumps == 3
ClockSteps == {1, TIMESTAMP_WINDOW_MS}

AuthUnchanged == UNCHANGED <<pipeline, req, keys, ord, typed, ids, keyExports, gets, services>>

\* the movements that brought the clock from 0 to t: steps of the window
\* and steps of 1 ms
ClockJumps(t) == (t \div TIMESTAMP_WINDOW_MS) + (t % TIMESTAMP_WINDOW_MS)

\* time passes (or the clock is stepped) between two reads of Date.now()
ClockTick(d) ==
    /\ ClockJumps(clock) < MaxClockJumps
    /\ clock' = clock + d
    /\ UNCHANGED <<pipeline, req, auth, keys, ord, typed, ids, keyExports, gets, services>>

SetAuth(c, loc) == auth' = [auth EXCEPT ![c] = loc]

\* generateAuthHeaders(method, path, body): const timestamp = Date.now()
AuthStart(c, method, path, body) ==
    /\ auth[c].pc = "idle"
    /\ SetAuth(c, [AuthIdle EXCEPT !.pc = "validate", !.method = method,
                       !.path = path, !.body = body, !.timestamp = clock])
    /\ UNCHANGED clock
    /\ AuthUnchanged

\* this.validateTimestamp(timestamp): now = Date.now(), throw when skewed
AuthValidate(c) ==
    /\ auth[c].pc = "validate"
    /\ SetAuth(c, IF TimestampSkewed(clock, auth[c].timestamp)
                  THEN [auth[c] EXCEPT !.pc = "thrown", !.now = clock,
                                       !.err = "timestamp_skew"]
                  ELSE [auth[c] EXCEPT !.pc = "sign", !.now = clock])
    /\ UNCHANGED clock
    /\ AuthUnchanged

\* the canonical string and its signature; the headers are returned
AuthSign(c) ==
    /\ auth[c].pc = "sign"
    /\ LET canonical == constructCanonicalString(auth[c].timestamp,
                            auth[c].method, auth[c].path, auth[c].body)
       IN  SetAuth(c, [auth[c] EXCEPT !.pc = "done", !.canonical = canonical,
                           !.signature = signMessage(AuthKey, canonical)])
    /\ UNCHANGED clock
    /\ AuthUnchanged

\* the caller has the headers or the exception
AuthReturn(c) ==
    /\ auth[c].pc \in {"done", "thrown"}
    /\ SetAuth(c, AuthIdle)
    /\ UNCHANGED clock
    /\ AuthUnchanged

NextAuth ==
    \/ \E d \in ClockSteps : ClockTick(d)
    \/ \E c \in AuthCalls, m \in Methods, p \in Paths, b \in Bodies :
           AuthStart(c, m, p, b)
    \/ \E c \in AuthCalls : AuthValidate(c)
    \/ \E c \in AuthCalls : AuthSign(c)
    \/ \E c \in AuthCalls : AuthReturn(c)

SpecAuth == Init /\ [][NextAuth]_vars

\* ------------------------------------------------- stored signing keys

\* lifetimes a caller can ask for (expirationDays), the scopes of a key,
\* and the two callers that place orders
ExpirationDays == {0, 1}
Scopes == {"trading", "read"}
OrderCallers == {"route", "service"}
DayMs == 24 * 60 * 60 * 1000

\* a faulty variant: a stored key never expires
ExpiredNever(now, expirationTimestamp) == FALSE

\* if (Date.now() > keyData.expirationTimestamp) return null
Expired(now, expirationTimestamp) == now > expirationTimestamp

\* getKeyForAccount: null (NoKey) when nothing is stored or the key expired
getKeyForAccount(keyData, now) ==
    IF ~keyData.stored \/ Expired(now, keyData.expirationTimestamp)
    THEN NoKey
    ELSE keyData

KeyUnchanged == UNCHANGED <<pipeline, req, clock, auth, typed, ids, keyExports, gets, services>>

\* generateKeyForAccount(accountId, scope, expirationDays)
generateKeyForAccount(scope, expirationDays) ==
    /\ keys' = [stored |-> TRUE, scope |-> scope,
                expirationTimestamp |-> clock + expirationDays * DayMs]
    /\ UNCHANGED ord
    /\ KeyUnchanged

\* deleteKeyForAccount(accountId): orderlyKey: null
deleteKeyForAccount ==
    /\ keys.stored
    /\ keys' = NoKey
    /\ UNCHANGED ord
    /\ KeyUnchanged

\* the order route and placeOrder: look the key up, refuse without one
\* (the route also refuses a key without trading scope), else build the
\* auth the client signs with
OrderLookup(via) ==
    /\ ord.pc = "idle"
    /\ LET keyInfo == getKeyForAccount(keys, clock)
           found == [OrdIdle EXCEPT !.via = via, !.keyData = keys,
                                    !.keyInfo = keyInfo, !.lookedAt = clock]
       IN  ord' = IF ~keyInfo.stored
                  THEN [found EXCEPT !.pc = "refused",
                                     !.status = IF via = "route" THEN "404"
                                                ELSE "no_key_error"]
                  ELSE IF via = "route" /\ keyInfo.scope # "trading"
                  THEN [found EXCEPT !.pc = "refused", !.status = "403"]
                  ELSE [found EXCEPT !.pc = "signing"]
    /\ UNCHANGED keys
    /\ KeyUnchanged

\* apiClient.createOrder: an attempt of request signs with the key looked
\* up; it is the last one or a retry follows (maxRetries is left undefined)
OrderSign(last) ==
    /\ ord.pc = "signing"
    /\ LET signedAt == Append(ord.signedAt, clock)
       IN  ord' = [ord EXCEPT !.signedAt = signedAt,
                              !.pc = IF last \/ Len(signedAt) > maxRetries(Undefined)
                                     THEN "done" ELSE "signing"]
    /\ UNCHANGED keys
    /\ KeyUnchanged

\* the response is sent, or the exception reaches the caller
OrderReturn ==
    /\ ord.pc \in {"refused", "done"}
    /\ ord' = OrdIdle
    /\ UNCHANGED keys
    /\ KeyUnchanged

NextKey ==
    \/ \E d \in ClockSteps : ClockTick(d)
    \/ \E s \in Scopes, e \in ExpirationDays : generateKeyForAccount(s, e)
    \/ deleteKeyForAccount
    \/ \E via \in OrderCallers : OrderLookup(via)
    \/ \E last \in BOOLEAN : OrderSign(last)
    \/ OrderReturn

SpecKey == Init /\ [][NextKey]_vars

\* ------------------------------------------------ typed-data signatures

OFF_CHAIN_VERIFYING_CONTRACT == "0xCcCCccccCCCCcCCCCCCcCcCccCcCCCcCcccccccC"

\* orderlyConfig.getLedgerAddress(): mainnet and testnet
LedgerAddresses ==
    {"0x6F7a338F2aA472838dEFD3283eB360d4Dff5D203",
     "0x1826B75e2ef249173FC735149AE4B8e9ea10abff"}

Field(name, type) == [name |-> name, type |-> type]

REGISTRATION_TYPES ==
    <<Field("brokerId", "string"), Field("chainId", "uint256"),
      Field("chainType", "string"), Field("timestamp", "uint64"),
      Field("registrationNonce", "uint64")>>

ADD_ORDERLY_KEY_TYPES ==
    <<Field("brokerId", "string"), Field("chainId", "uint256"),
      Field("orderlyKey", "string"), Field("scope", "string"),
      Field("timestamp", "uint64"), Field("expiration", "uint64")>>

WITHDRAW_TYPES ==
    <<Field("brokerId", "string"), Field("chainId", "uint256"),
      Field("receiver", "address"), Field("token", "string"),
      Field("amount", "uint256"), Field("withdrawNonce", "uint64"),
      Field("timestamp", "uint64")>>

SETTLE_PNL_TYPES ==
    <<Field("brokerId", "string"), Field("chainId", "uint256"),
      Field("settleNonce", "uint64"), Field("timestamp", "uint64")>>

\* the types literal of signRegistrationMessage
RegistrationMessageTypes ==
    <<Field("brokerId", "string"), Field("chainId", "uint256"),
      Field("timestamp", "uint64"), Field("registrationNonce", "uint256")>>

\* inputs of the signers
BrokerIds == {"woofi_pro"}
ChainIds == {42161, 421614}
Nonces == {1, 2}
OrderlyKeys == {"ed25519:k1", "k1"}
Receivers == {"0xreceiver"}

createDomain(chainId, verifyingContract) ==
    [name |-> "Orderly", version |-> "1", chainId |-> chainId,
     verifyingContract |-> verifyingContract]

\* wallet._signTypedData(domain, types, message): the signature of one
\* wallet is a function of the domain, the primary type with its fields,
\* and the message
signTypedData(domain, primaryType, types, message) ==
    <<domain, primaryType, types, message>>

SetTyped(by, domain, primaryType, types, message) ==
    /\ typed' = [by |-> by, primaryType |-> primaryType, domain |-> domain,
                 types |-> types, message |-> message,
                 signature |-> signTypedData(domain, primaryType, types,
                                             message)]
    /\ UNCHANGED <<pipeline, req, clock, auth, keys, ord, ids, keyExports, gets, services>>

\* orderlyKey.startsWith('ed25519:') ? orderlyKey : `ed25519:${orderlyKey}`
formattedKey(orderlyKey) ==
    IF orderlyKey = "ed25519:k1" THEN orderlyKey ELSE "ed25519:" \o orderlyKey

signRegistration(brokerId, chainId, registrationNonce) ==
    SetTyped("signRegistration",
             createDomain(chainId, OFF_CHAIN_VERIFYING_CONTRACT),
             "Registration", REGISTRATION_TYPES,
             [brokerId |-> brokerId, chainId |-> chainId,
              chainType |-> "EVM", timestamp |-> ToString(clock),
              registrationNonce |-> ToString(registrationNonce)])

signAddOrderlyKey(brokerId, chainId, orderlyKey, scope, expirationDays) ==
    SetTyped("signAddOrderlyKey",
             createDomain(chainId, OFF_CHAIN_VERIFYING_CONTRACT),
             "AddOrderlyKey", ADD_ORDERLY_KEY_TYPES,
             [brokerId |-> brokerId, chainId |-> chainId,
              orderlyKey |-> formattedKey(orderlyKey), scope |-> scope,
              timestamp |-> clock,
              expiration |-> clock + expirationDays * DayMs])

signWithdraw(brokerId, chainId, receiver, token, amount, withdrawNonce, ledgerAddress) ==
    SetTyped("signWithdraw", createDomain(chainId, ledgerAddress),
             "Withdraw", WITHDRAW_TYPES,
             [brokerId |-> brokerId, chainId |-> chainId,
              receiver |-> receiver, token |-> token, amount |-> amount,
              withdrawNonce |-> withdrawNonce, timestamp |-> clock])

signSettlePnl(brokerId, chainId, settleNonce, ledgerAddress) ==
    SetTyped("signSettlePnl", createDomain(chainId, ledgerAddress),
             "SettlePnl", SETTLE_PNL_TYPES,
             [brokerId |-> brokerId, chainId |-> chainId,
              settleNonce |-> settleNonce, timestamp |-> clock])

\* signRegistrationMessage(privateKey, message): the caller builds the
\* message; the domain and the types are literals of the method
signRegistrationMessage(brokerId, chainId, registrationNonce) ==
    SetTyped("signRegistrationMessage",
             createDomain(chainId, OFF_CHAIN_VERIFYING_CONTRACT),
             "Registration", RegistrationMessageTypes,
             [brokerId |-> brokerId, chainId |-> chainId,
              timestamp |-> clock, registrationNonce |-> registrationNonce])

NextTyped ==
    \/ \E d \in ClockSteps : ClockTick(d)
    \/ \E b \in BrokerIds, c \in ChainIds, n \in Nonces :
           signRegistration(b, c, n)
    \/ \E b \in BrokerIds, c \in ChainIds, k \in OrderlyKeys, s \in Scopes,
          e \in ExpirationDays : signAddOrderlyKey(b, c, k, s, e)
    \/ \E b \in BrokerIds, c \in ChainIds, r \in Receivers, n \in Nonces,
          l \in LedgerAddresses :
           signWithdraw(b, c, r, "USDC", MIN_DEPOSIT, n, l)
    \/ \E b \in BrokerIds, c \in ChainIds, n \in Nonces,
          l \in LedgerAddresses : signSettlePnl(b, c, n, l)
    \/ \E b \in BrokerIds, c \in ChainIds, n \in Nonces :
           signRegistrationMessage(b, c, n)

SpecTyped == Init /\ [][NextTyped]_vars

\* ------------------------------------------------------- account ids

\* Broker ids are strings of at most MaxBrokerIdLen code points, here
\* 'a', 'i' and U+00E9; wallet addresses are the hex digits after "0x".
MaxBrokerIdLen == 2
CodePoints == {97, 105, 233}
BrokerIdStrings ==
    UNION {[1..n -> CodePoints] : n \in 1..MaxBrokerIdLen}
WalletAddresses == {<<"a", "b">>, <<"A", "B">>, <<"1", "2">>}

HexValue(digit) ==
    CASE digit \in {"a", "A"} -> 10
      [] digit \in {"b", "B"} -> 11
      [] digit = "1" -> 1
      [] digit = "2" -> 2

RECURSIVE arrayify(_)
\* ethers.utils.arrayify: two hex digits of either case make a byte
arrayify(hex) ==
    IF hex = <<>> THEN <<>>
    ELSE <<16 * HexValue(hex[1]) + HexValue(hex[2])>>
         \o arrayify(SubSeq(hex, 3, Len(hex)))

RECURSIVE toUtf8BytesLow(_)
\* a faulty variant: each code point is cut to its low seven bits
toUtf8BytesLow(str) ==
    IF str = <<>> THEN <<>>
    ELSE <<Head(str) % 128>> \o toUtf8BytesLow(Tail(str))

RECURSIVE toUtf8Bytes(_)
\* ethers.utils.toUtf8Bytes: one byte below U+0080, two below U+0800
toUtf8Bytes(str) ==
    IF str = <<>> THEN <<>>
    ELSE (IF Head(str) < 128 THEN <<Head(str)>>
          ELSE <<192 + (Head(str) \div 64), 128 + (Head(str) % 64)>>)
         \o toUtf8Bytes(Tail(str))

\* ethers.utils.keccak256, taken as free of collisions: the digest stands
\* for the bytes hashed
keccak256(bytes) == [keccak256 |-> bytes]

Zeros(n) == [i \in 1..n |-> 0]

\* defaultAbiCoder.encode(['bytes', 'bytes32'], [walletBytes, brokerHash]):
\* the offset of the dynamic value, the bytes32 word, then the length of
\* the bytes and the bytes padded to a multiple of 32
abiEncode(walletBytes, brokerHash) ==
    [offset |-> 64, word |-> brokerHash, length |-> Len(walletBytes),
     data |-> walletBytes \o Zeros((32 - (Len(walletBytes) % 32)) % 32)]

calculateAccountId(walletAddress, brokerId) ==
    keccak256(abiEncode(arrayify(walletAddress),
                        keccak256(toUtf8Bytes(brokerId))))

\* a call of the static method returns
CalculateAccountId(c, walletAddress, brokerId) ==
    /\ ids' = [ids EXCEPT ![c] =
                  [done |-> TRUE, walletAddress |-> walletAddress,
                   brokerId |-> brokerId,
                   accountId |-> calculateAccountId(walletAddress, brokerId)]]
    /\ UNCHANGED <<pipeline, req, clock, auth, keys, ord, typed, keyExports, gets, services>>

NextIdentity ==
    \E c \in IdCalls, w \in WalletAddresses, b \in BrokerIdStrings :
        CalculateAccountId(c, w, b)

SpecIdentity == Init /\ [][NextIdentity]_vars

\* --------------------------------------------------------- key exports

\* createKeyExport(secretPath, privateKey, ttlSeconds = 30)
ttlSeconds == 30

ExportUnchanged == UNCHANGED <<pipeline, req, clock, auth, keys, ord, typed, ids, services>>

SetGet(g, loc) == gets' = [gets EXCEPT ![g] = loc]

\* the export of a verified request is written once
createKeyExport ==
    /\ ~keyExports.created
    /\ keyExports' = [keyExports EXCEPT
                         !.created = TRUE,
                         !.doc = [exists |-> TRUE, privateKey |-> "wallet-key",
                                  expiresAt |-> clock + ttlSeconds * 1000,
                                  accessed |-> FALSE]]
    /\ UNCHANGED gets
    /\ ExportUnchanged

\* getKeyExport: the document is read
GetRead(g) ==
    /\ gets[g].pc = "idle"
    /\ SetGet(g, [GetIdle EXCEPT !.pc = "read", !.keyExport = keyExports.doc])
    /\ UNCHANGED keyExports
    /\ ExportUnchanged

\* getKeyExport: null when missing; an expired document is deleted and null
\* is returned; the handler answers 404 on null, deletes and answers 410 on
\* an accessed export, else keeps the key and goes on to delete
GetCheck(g) ==
    /\ gets[g].pc = "read"
    /\ LET data == gets[g].keyExport
       IN  IF ~data.exists
           THEN /\ SetGet(g, [gets[g] EXCEPT !.pc = "respond", !.status = 404])
                /\ UNCHANGED keyExports
           ELSE IF data.expiresAt < clock
           THEN /\ SetGet(g, [gets[g] EXCEPT !.pc = "respond", !.status = 404])
                /\ keyExports' = [keyExports EXCEPT !.doc = NoExport]
           ELSE IF data.accessed
           THEN /\ SetGet(g, [gets[g] EXCEPT !.pc = "respond", !.status = 410])
                /\ keyExports' = [keyExports EXCEPT !.doc = NoExport]
           ELSE /\ SetGet(g, [gets[g] EXCEPT !.pc = "delete",
                                             !.privateKey = data.privateKey])
                /\ UNCHANGED keyExports
    /\ ExportUnchanged

\* await dbService.deleteKeyExport(secretPath)
GetDelete(g) ==
    /\ gets[g].pc = "delete"
    /\ SetGet(g, [gets[g] EXCEPT !.pc = "respond", !.status = 200])
    /\ keyExports' = [keyExports EXCEPT !.doc = NoExport]
    /\ ExportUnchanged

\* res.json: a 200 response carries the private key
GetRespond(g) ==
    /\ gets[g].pc = "respond"
    /\ SetGet(g, GetIdle)
    /\ keyExports' = [keyExports EXCEPT
                         !.served = IF gets[g].status = 200 THEN @ + 1 ELSE @]
    /\ ExportUnchanged

NextExport ==
    \/ \E d \in ClockSteps : ClockTick(d)
    \/ createKeyExport
    \/ \E g \in Getters : GetRead(g)
    \/ \E g \in Getters : GetCheck(g)
    \/ \E g \in Getters : GetDelete(g)
    \/ \E g \in Getters : GetRespond(g)

SpecExport == Init /\ [][NextExport]_vars

\* ------------------------------------------------------ tweet listener

\* Store calls that fail in a run.
MaxStoreFaults == 2

\* LIMITS
maxPositionSize == 1000
maxLeverage == 10
maxOpenPositions == 5
minOrderSize == 10
maxDailyVolume == 5000

\* the tweets: each is a long command of the registered user
TweetIds == {"tw1", "tw2", "tw3", "tw4", "tw5", "tw6"}
TweetAsset(tw) ==
    CASE tw = "tw1" -> "BTC" [] tw = "tw2" -> "ETH" [] tw = "tw3" -> "SOL"
      [] tw = "tw4" -> "ARB" [] tw = "tw5" -> "OP" [] tw = "tw6" -> "DOGE"
parseCommand(tw) ==
    [type |-> "long", asset |-> TweetAsset(tw), amount |-> minOrderSize,
     leverage |-> 1]

ListenerUnchanged == UNCHANGED <<pipeline, venueClient, box, placing, exporting, keygen>>

SetPoll(p, loc) == polls' = [polls EXCEPT ![p] = loc]

\* the tweet an invocation is at
PollTweet(p) == timeline.mentions[polls[p].i]

\* for (const tweet of tweets): the next tweet, or the end of the poll
PollNext(p) ==
    IF polls[p].i < Len(timeline.mentions)
    THEN [pc |-> "check", i |-> polls[p].i + 1]
    ELSE PollIdle

\* isProcessed(tweetId): doc.exists
isProcessed(tw) == tw \in timeline.processed

\* handleTrade's checks before the order: limits, daily volume, balance
TradeAllowed(command) ==
    /\ command.amount <= maxPositionSize
    /\ command.amount >= minOrderSize
    /\ command.leverage <= maxLeverage
    /\ trading.volume + command.amount <= maxDailyVolume
    /\ trading.internalBalance >= command.amount

\* the orders placed for a tweet
OrdersFor(tw) ==
    Cardinality({k \in 1..Len(trading.orders) : trading.orders[k] = tw})

\* pollTwitter: getMentions returns the mentions (none: return)
PollFetch(p) ==
    /\ polls[p].pc = "idle"
    /\ SetPoll(p, IF timeline.mentions = <<>> THEN PollIdle
                  ELSE [pc |-> "check", i |-> 1])
    /\ UNCHANGED <<timeline, trading>>
    /\ ListenerUnchanged

\* skip if already processed
PollCheck(p) ==
    /\ polls[p].pc = "check"
    /\ SetPoll(p, IF isProcessed(PollTweet(p)) THEN PollNext(p)
                  ELSE [polls[p] EXCEPT !.pc = "execute"])
    /\ UNCHANGED <<timeline, trading>>
    /\ ListenerUnchanged

\* handleTrade: a refused trade or a venue error throws; else the order is
\* placed at the venue (a position opens on the asset) and saved
PollExecute(p, venueOk) ==
    /\ polls[p].pc = "execute"
    /\ LET tw == PollTweet(p)
           command == parseCommand(tw)
       IN  IF TradeAllowed(command) /\ venueOk
           THEN /\ trading' = [trading EXCEPT
                                  !.orders = Append(@, tw),
                                  !.open = @ \cup {command.asset},
                                  !.last = Cardinality(trading.open),
                                  !.volume = @ + command.amount * command.leverage]
                /\ SetPoll(p, [polls[p] EXCEPT !.pc = "mark"])
           ELSE /\ UNCHANGED trading
                /\ SetPoll(p, [polls[p] EXCEPT !.pc = "mark_error"])
    /\ UNCHANGED timeline
    /\ ListenerUnchanged

\* markProcessed(tweet.id, ..., 'success'); a failed write is caught below
PollMark(p, stored) ==
    /\ polls[p].pc = "mark"
    /\ stored \/ timeline.faults < MaxStoreFaults
    /\ IF stored
       THEN /\ timeline' = [timeline EXCEPT !.processed = @ \cup {PollTweet(p)}]
            /\ SetPoll(p, [polls[p] EXCEPT !.pc = "reply"])
       ELSE /\ timeline' = [timeline EXCEPT !.faults = @ + 1]
            /\ SetPoll(p, [polls[p] EXCEPT !.pc = "mark_error"])
    /\ UNCHANGED trading
    /\ ListenerUnchanged

\* catch: markProcessed(tweet.id, ..., 'error', errorMsg); a failed write
\* leaves the loop and ends the poll ('Poll error')
PollMarkError(p, stored) ==
    /\ polls[p].pc = "mark_error"
    /\ stored \/ timeline.faults < MaxStoreFaults
    /\ IF stored
       THEN /\ timeline' = [timeline EXCEPT !.processed = @ \cup {PollTweet(p)}]
            /\ SetPoll(p, [polls[p] EXCEPT !.pc = "reply"])
       ELSE /\ timeline' = [timeline EXCEPT !.faults = @ + 1]
            /\ SetPoll(p, PollIdle)
    /\ UNCHANGED trading
    /\ ListenerUnchanged

\* twitterService.reply, then the next tweet
PollReply(p) ==
    /\ polls[p].pc = "reply"
    /\ SetPoll(p, PollNext(p))
    /\ UNCHANGED <<timeline, trading>>
    /\ ListenerUnchanged

PollStep(p) ==
    \/ PollFetch(p)
    \/ PollCheck(p)
    \/ \E venueOk \in BOOLEAN : PollExecute(p, venueOk)
    \/ \E stored \in BOOLEAN : PollMark(p, stored)
    \/ \E stored \in BOOLEAN : PollMarkError(p, stored)
    \/ PollReply(p)

\* setInterval(pollTwitter, POLL_INTERVAL): invocations may overlap
NextListener == \E p \in Pollers : PollStep(p)

SpecListener == Init /\ [][NextListener]_vars

\* six mentions, each a long on another asset; one invocation at a time
InitTrader ==
    /\ InitDeposits
    /\ req = ReqIdle
    /\ clock = 0
    /\ auth = [c \in AuthCalls |-> AuthIdle]
    /\ keys = NoKey
    /\ ord = OrdIdle
    /\ typed = TypedIdle
    /\ ids = [c \in IdCalls |-> IdIdle]
    /\ keyExports = [doc |-> NoExport, created |-> FALSE, served |-> 0]
    /\ gets = [g \in Getters |-> GetIdle]
    /\ timeline = [mentions |-> <<"tw1", "tw2", "tw3", "tw4", "tw5", "tw6">>,
                   processed |-> {}, faults |-> 0]
    /\ polls = [p \in Pollers |-> PollIdle]
    /\ trading = [internalBalance |-> MIN_DEPOSIT, volume |-> 0, open |-> {},
                  orders |-> <<>>, last |-> 0]
    /\ box = BoxIdle
    /\ InitWorkers

NextTrader == PollStep("p1")

SpecTrader == InitTrader /\ [][NextTrader]_vars

\* ------------------------------------------------- encryption service

\* Plaintexts are strings of at most MaxPlaintextLen UTF-16 code units:
\* 'a', U+00E9, and the two halves of the surrogate pair of U+1F600.
MaxPlaintextLen == 2
CodeUnits == {97, 233, 55357, 56832}
Plaintexts == UNION {[1..n -> CodeUnits] : n \in 0..MaxPlaintextLen}

\* crypto.randomBytes(12), shortened to one byte
Ivs == {<<0>>, <<77>>, <<255>>}

\* MASTER_ENCRYPTION_KEY, shortened to one byte
masterKey == 90

IsHigh(u) == u >= 55296 /\ u <= 56319
IsLow(u) == u >= 56320 /\ u <= 57343

\* the UTF-8 bytes of a code point
Utf8Of(cp) ==
    IF cp < 128 THEN <<cp>>
    ELSE IF cp < 2048 THEN <<192 + (cp \div 64), 128 + (cp % 64)>>
    ELSE IF cp < 65536
    THEN <<224 + (cp \div 4096), 128 + ((cp \div 64) % 64), 128 + (cp % 64)>>
    ELSE <<240 + (cp \div 262144), 128 + ((cp \div 4096) % 64),
           128 + ((cp \div 64) % 64), 128 + (cp % 64)>>

RECURSIVE utf8Encode(_)
\* cipher.update(plaintext, 'utf8', ...): a surrogate pair is one code
\* point, an unpaired surrogate is written as U+FFFD
utf8Encode(units) ==
    IF units = <<>> THEN <<>>
    ELSE IF IsHigh(units[1]) /\ Len(units) > 1 /\ IsLow(units[2])
    THEN Utf8Of(65536 + (units[1] - 55296) * 1024 + (units[2] - 56320))
         \o utf8Encode(SubSeq(units, 3, Len(units)))
    ELSE IF IsHigh(units[1]) \/ IsLow(units[1])
    THEN Utf8Of(65533) \o utf8Encode(Tail(units))
    ELSE Utf8Of(units[1]) \o utf8Encode(Tail(units))

\* the UTF-16 code units of a code point
Utf16Of(cp) ==
    IF cp < 65536 THEN <<cp>>
    ELSE <<55296 + ((cp - 65536) \div 1024), 56320 + ((cp - 65536) % 1024)>>

RECURSIVE utf8DecodeLatin1(_)
\* a faulty variant: every byte is read as one character
utf8DecodeLatin1(bytes) ==
    IF bytes = <<>> THEN <<>>
    ELSE <<bytes[1]>> \o utf8DecodeLatin1(Tail(bytes))

RECURSIVE utf8Decode(_)
\* decipher.update(..., 'utf8'): the bytes written by utf8Encode, read back
utf8Decode(bytes) ==
    IF bytes = <<>> THEN <<>>
    ELSE IF bytes[1] < 128
    THEN <<bytes[1]>> \o utf8Decode(Tail(bytes))
    ELSE IF bytes[1] < 224
    THEN Utf16Of((bytes[1] - 192) * 64 + (bytes[2] - 128))
         \o utf8Decode(SubSeq(bytes, 3, Len(bytes)))
    ELSE IF bytes[1] < 240
    THEN Utf16Of((bytes[1] - 224) * 4096 + (bytes[2] - 128) * 64
                 + (bytes[3] - 128))
         \o utf8Decode(SubSeq(bytes, 4, Len(bytes)))
    ELSE Utf16Of((bytes[1] - 240) * 262144 + (bytes[2] - 128) * 4096
                 + (bytes[3] - 128) * 64 + (bytes[4] - 128))
         \o utf8Decode(SubSeq(bytes, 5, Len(bytes)))

RECURSIVE toBase64(_)
\* toString('base64'): three bytes make four digits; 64 stands for '='
toBase64(bytes) ==
    IF bytes = <<>> THEN <<>>
    ELSE IF Len(bytes) = 1
    THEN <<bytes[1] \div 4, (bytes[1] % 4) * 16, 64, 64>>
    ELSE IF Len(bytes) = 2
    THEN <<bytes[1] \div 4, (bytes[1] % 4) * 16 + (bytes[2] \div 16),
           (bytes[2] % 16) * 4, 64>>
    ELSE <<bytes[1] \div 4, (bytes[1] % 4) * 16 + (bytes[2] \div 16),
           (bytes[2] % 16) * 4 + (bytes[3] \div 64), bytes[3] % 64>>
         \o toBase64(SubSeq(bytes, 4, Len(bytes)))

RECURSIVE fromBase64(_)
\* Buffer.from(..., 'base64')
fromBase64(digits) ==
    IF digits = <<>> THEN <<>>
    ELSE (IF digits[3] = 64
          THEN <<digits[1] * 4 + (digits[2] \div 16)>>
          ELSE IF digits[4] = 64
          THEN <<digits[1] * 4 + (digits[2] \div 16),
                 (digits[2] % 16) * 16 + (digits[3] \div 4)>>
          ELSE <<digits[1] * 4 + (digits[2] \div 16),
                 (digits[2] % 16) * 16 + (digits[3] \div 4),
                 (digits[3] % 4) * 64 + digits[4]>>)
         \o fromBase64(SubSeq(digits, 5, Len(digits)))

\* AES-256-GCM as a stream cipher: byte k of the text is shifted by the
\* key stream of (key, iv) at k; the tag authenticates iv and ciphertext
KeyStream(key, iv, k) == (key + 31 * iv[1] + 17 * k) % 256
gcmEncrypt(key, iv, bytes) ==
    [k \in 1..Len(bytes) |-> (bytes[k] + KeyStream(key, iv, k)) % 256]
gcmDecrypt(key, iv, bytes) ==
    [k \in 1..Len(bytes) |-> (bytes[k] + 256 - KeyStream(key, iv, k)) % 256]
gcmTag(key, iv, bytes) == <<key, iv, bytes>>

\* encrypt(plaintext): the JSON of iv, ciphertext and tag, each in base64;
\* update returns the whole ciphertext and final nothing more
encrypt(plaintext, iv) ==
    LET ciphertext == gcmEncrypt(masterKey, iv, utf8Encode(plaintext))
    IN  [iv |-> toBase64(iv),
         encrypted |-> toBase64(ciphertext) \o toBase64(<<>>),
         tag |-> gcmTag(masterKey, iv, ciphertext)]

\* decrypt(ciphertext): final throws unless the tag verifies
decrypt(encryptedData) ==
    LET iv == fromBase64(encryptedData.iv)
        ciphertext == fromBase64(encryptedData.encrypted)
    IN  IF encryptedData.tag = gcmTag(masterKey, iv, ciphertext)
        THEN [ok |-> TRUE,
              text |-> utf8Decode(gcmDecrypt(masterKey, iv, ciphertext))]
        ELSE [ok |-> FALSE, text |-> <<>>]

BoxUnchanged == UNCHANGED <<pipeline, venueClient, listener, placing, exporting, keygen>>

\* a caller encrypts a plaintext
Encrypt(plaintext, iv) ==
    /\ box.pc = "idle"
    /\ box' = [BoxIdle EXCEPT !.pc = "sealed", !.plaintext = plaintext,
                              !.envelope = encrypt(plaintext, iv)]
    /\ BoxUnchanged

\* the stored envelope is decrypted
Decrypt ==
    /\ box.pc = "sealed"
    /\ LET opened == decrypt(box.envelope)
       IN  box' = [box EXCEPT !.pc = IF opened.ok THEN "opened" ELSE "failed",
                              !.decrypted = opened.text]
    /\ BoxUnchanged

\* the caller has the plaintext
BoxReturn ==
    /\ box.pc \in {"opened", "failed"}
    /\ box' = BoxIdle
    /\ BoxUnchanged

NextBox ==
    \/ \E plaintext \in Plaintexts, iv \in Ivs : Encrypt(plaintext, iv)
    \/ Decrypt
    \/ BoxReturn

SpecBox == Init /\ [][NextBox]_vars

\* ------------------------------------- OrderlyServiceV2's shared client

\* the account a caller places its order for
PlaceAccount(c) == IF c = "c1" THEN "A" ELSE "B"

PlaceUnchanged == UNCHANGED <<pipeline, venueClient, listener, box, exporting, keygen>>

SetPlace(c, loc) == [placing EXCEPT !.calls[c] = loc]

\* placeOrder(params): await this.orderlyKeyService.getKeyForAccount(...)
PlaceLookup(c) ==
    /\ placing.calls[c].pc = "idle"
    /\ placing' = SetPlace(c, [PlaceIdle EXCEPT !.pc = "lookup",
                                                !.account = PlaceAccount(c)])
    /\ PlaceUnchanged

\* this.apiClient.setAuth(auth); createOrder -> postAuthenticated -> request:
\* the first attempt reads this.auth before anything is awaited
PlaceSetAuth(c) ==
    /\ placing.calls[c].pc = "lookup"
    /\ placing' = [SetPlace(c, [placing.calls[c] EXCEPT
                                   !.pc = "send", !.attempt = 0,
                                   !.signer = placing.calls[c].account])
                   EXCEPT !.auth = placing.calls[c].account]
    /\ PlaceUnchanged

\* await this.axios.request({method, url, data: body, headers}): the venue
\* receives the caller's order under the headers of the attempt
PlaceSend(c) ==
    /\ placing.calls[c].pc = "send"
    /\ placing' = [SetPlace(c, [placing.calls[c] EXCEPT !.pc = "response"])
                   EXCEPT !.sent = @ \cup {[account |-> placing.calls[c].account,
                                            signer |-> placing.calls[c].signer]}]
    /\ PlaceUnchanged

\* the response: the data is returned, a non-retryable error is thrown, or
\* (attempt < this.maxRetries) the call sleeps before the next attempt
PlaceResponse(c, outcome) ==
    /\ placing.calls[c].pc = "response"
    /\ placing' = SetPlace(c,
          IF outcome = "retryable" /\ placing.calls[c].attempt < maxRetries(Undefined)
          THEN [placing.calls[c] EXCEPT !.pc = "backoff"]
          ELSE PlaceIdle)
    /\ PlaceUnchanged

\* after sleep(delay): the next attempt, if (requireAuth && this.auth)
\* this.auth.generateAuthHeaders(...) with the auth the client holds now
PlaceRetry(c) ==
    /\ placing.calls[c].pc = "backoff"
    /\ placing' = SetPlace(c, [placing.calls[c] EXCEPT
                                  !.pc = "send", !.attempt = @ + 1,
                                  !.signer = placing.auth])
    /\ PlaceUnchanged

PlaceStep(c) ==
    \/ PlaceLookup(c)
    \/ PlaceSetAuth(c)
    \/ PlaceSend(c)
    \/ \E outcome \in {"ok", "retryable", "fatal"} : PlaceResponse(c, outcome)
    \/ PlaceRetry(c)

NextPlace == \E c \in PlaceCalls : PlaceStep(c)

SpecPlace == Init /\ [][NextPlace]_vars

\* ------------------------------------------------------ export monitor

\* the clock values the export's lifetime is watched over
MaxNow == 2

ExportUnchangedByWorkers == UNCHANGED <<pipeline, venueClient, listener, box, placing, keygen>>

\* twitterService.getMentions(50): the tweets posted so far, all of them
\* "export <code>" by the user who asked for the export
getMentions == SubSeq(ExportTweets, 1, exporting.mentions)

\* the user tweets the code (again)
ExpTweet ==
    /\ exporting.mentions < Len(ExportTweets)
    /\ exporting' = [exporting EXCEPT !.mentions = @ + 1]
    /\ ExportUnchangedByWorkers

\* time passes
ExpTick ==
    /\ exporting.now < MaxNow
    /\ exporting' = [exporting EXCEPT !.now = @ + 1]
    /\ ExportUnchangedByWorkers

\* if (pendingExport.expiresAt.toMillis() < Date.now())
ExportExpired(expiresAt, now) == expiresAt < now

\* getPendingExportByCode(code, handle): where status == 'pending'
getPendingExportByCode == exporting.status = "pending"

\* for (const tweet of tweets): the next tweet, or the end of the invocation
ExpNext(loc) ==
    IF loc.i < Len(loc.tweets) THEN [loc EXCEPT !.pc = "check", !.i = @ + 1]
    ELSE ExpIdle

\* monitorExports: const tweets = await twitterService.getMentions(50)
ExpFetch(m) ==
    /\ exporting.mons[m].pc = "idle"
    /\ getMentions # <<>>
    /\ exporting' = [exporting EXCEPT !.mons[m] =
                        [pc |-> "check", tweets |-> getMentions, i |-> 1]]
    /\ ExportUnchangedByWorkers

\* const processed = await dbService.isProcessed(tweet.id)
ExpCheck(m) ==
    /\ exporting.mons[m].pc = "check"
    /\ LET loc == exporting.mons[m]
       IN  exporting' = [exporting EXCEPT !.mons[m] =
               IF loc.tweets[loc.i] \in exporting.processed
               THEN ExpNext(loc) ELSE [loc EXCEPT !.pc = "lookup"]]
    /\ ExportUnchangedByWorkers

\* getPendingExportByCode, the reply to an unknown code, the expiry test,
\* getUserById
ExpLookup(m) ==
    /\ exporting.mons[m].pc = "lookup"
    /\ LET loc == exporting.mons[m]
       IN  exporting' = [exporting EXCEPT !.mons[m] =
               IF ~getPendingExportByCode THEN ExpNext(loc)
               ELSE IF ExportExpired(exporting.expiresAt, exporting.now)
                    THEN [loc EXCEPT !.pc = "expire"]
                    ELSE [loc EXCEPT !.pc = "create"]]
    /\ ExportUnchangedByWorkers

\* updatePendingExportStatus(pendingExport.id, 'expired')
ExpExpire(m) ==
    /\ exporting.mons[m].pc = "expire"
    /\ exporting' = [exporting EXCEPT !.status = "expired",
                                      !.mons[m].pc = "mark"]
    /\ ExportUnchangedByWorkers

\* createKeyExport(pendingExport.secretPath, walletPrivateKey, 30)
ExpCreate(m) ==
    /\ exporting.mons[m].pc = "create"
    /\ exporting' = [exporting EXCEPT !.created = @ + 1,
                                      !.mons[m].pc = "complete"]
    /\ ExportUnchangedByWorkers

\* updatePendingExportStatus(pendingExport.id, 'completed')
ExpComplete(m) ==
    /\ exporting.mons[m].pc = "complete"
    /\ exporting' = [exporting EXCEPT !.status = "completed",
                                      !.mons[m].pc = "mark"]
    /\ ExportUnchangedByWorkers

\* markProcessed(tweet.id, ...), then the reply
ExpMark(m) ==
    /\ exporting.mons[m].pc = "mark"
    /\ LET loc == exporting.mons[m]
       IN  exporting' = [exporting EXCEPT
               !.processed = @ \cup {loc.tweets[loc.i]},
               !.mons[m] = ExpNext(loc)]
    /\ ExportUnchangedByWorkers

ExpStep(m) ==
    \/ ExpFetch(m)
    \/ ExpCheck(m)
    \/ ExpLookup(m)
    \/ ExpExpire(m)
    \/ ExpCreate(m)
    \/ ExpComplete(m)
    \/ ExpMark(m)

\* pollTwitter: const tweets = await twitterService.getMentions(50)
LisFetch ==
    /\ exporting.lis.pc = "idle"
    /\ getMentions # <<>>
    /\ exporting' = [exporting EXCEPT !.lis =
                        [pc |-> "check", tweets |-> getMentions, i |-> 1]]
    /\ ExportUnchangedByWorkers

\* pollTwitter: isProcessed(tweet.id); case 'export' answers that exports
\* are handled separately
LisCheck ==
    /\ exporting.lis.pc = "check"
    /\ LET loc == exporting.lis
       IN  exporting' = [exporting EXCEPT !.lis =
               IF loc.tweets[loc.i] \in exporting.processed
               THEN ExpNext(loc) ELSE [loc EXCEPT !.pc = "mark"]]
    /\ ExportUnchangedByWorkers

\* pollTwitter: markProcessed(tweet.id, handle, handle, tweet.text, 'success')
LisMark ==
    /\ exporting.lis.pc = "mark"
    /\ LET loc == exporting.lis
       IN  exporting' = [exporting EXCEPT
               !.processed = @ \cup {loc.tweets[loc.i]},
               !.lis = ExpNext(loc)]
    /\ ExportUnchangedByWorkers

LisStep == LisFetch \/ LisCheck \/ LisMark

NextExports ==
    \/ ExpTweet
    \/ ExpTick
    \/ \E m \in ExportMonitors : ExpStep(m)
    \/ LisStep

SpecExports == Init /\ [][NextExports]_vars

\* both workers keep polling: an invocation that can take its next step
\* takes it
SpecExportsLive ==
    /\ SpecExports
    /\ \A m \in ExportMonitors : WF_vars(ExpStep(m))
    /\ WF_vars(LisStep)

\* ------------------------------------- registration and key generation

\* keypairs generated over a run
MaxKeys == 3

\* registerAccount and POST /key/generate
KeyRoutes == {"register", "generate"}

KeyGenUnchanged == UNCHANGED <<pipeline, req, clock, auth, ord, typed, ids, keyExports, gets, listener, box, placing, exporting>>

\* registerAccount asks for ('trading', 365), the longest lifetime here;
\* the route takes scope and expirationDays from the request body
KeyGenStart(route, scope, days) ==
    /\ keygen.pc = "idle"
    /\ keygen.made < MaxKeys
    /\ route = "register" => (scope = "trading" /\ \A e \in ExpirationDays : e <= days)
    /\ keygen' = [keygen EXCEPT !.pc = "store", !.route = route,
                                !.scope = scope, !.days = days]
    /\ UNCHANGED keys
    /\ KeyGenUnchanged

\* generateKeyForAccount: a fresh keypair is written to users/{accountId}
KeyGenStore ==
    /\ keygen.pc = "store"
    /\ keys' = [stored |-> TRUE, scope |-> keygen.scope,
                expirationTimestamp |-> clock + keygen.days * DayMs]
    /\ keygen' = [keygen EXCEPT !.pc = "add", !.made = @ + 1,
                                !.stored = keygen.made + 1]
    /\ KeyGenUnchanged

\* addOrderlyKeyToAccount: the venue accepts the key, or the call throws and
\* the handler ends (registerAccount rejects, the route answers 500)
KeyGenAdd(accepted) ==
    /\ keygen.pc = "add"
    /\ keygen' = [keygen EXCEPT !.pc = "idle",
                                !.accepted = IF accepted THEN @ \cup {keygen.made}
                                             ELSE @]
    /\ UNCHANGED keys
    /\ KeyGenUnchanged

NextKeyGen ==
    \/ \E d \in ClockSteps : ClockTick(d)
    \/ \E r \in KeyRoutes, s \in Scopes, e \in ExpirationDays : KeyGenStart(r, s, e)
    \/ KeyGenStore
    \/ \E accepted \in BOOLEAN : KeyGenAdd(accepted)

SpecKeyGen == Init /\ [][NextKeyGen]_vars

\* ================================================================ claims

RecordsOf(t) == {i \in Ids : deposits[i].txHash = t}

CreditPositions == {"proc_credit", "proc_credit_write", "proc_mirror",
                    "proc_mark", "proc_fail"}

\* ---------------------------------------------------------------- C1
\* C1: under sequential submissions (a re-sighting by the scanner or a
\* repeated POST /verify, each handler running to its end), a transaction
\* hash has at most one record and, as long as no handler was aborted and no
\* operator reset was made, at most one balance increment; a submission of a
\* hash that already has a record creates nothing and changes neither the
\* records nor the balances.
C1_State ==
    /\ \A t \in TxHashes : Cardinality(RecordsOf(t)) <= 1
    /\ ~faulted => \A i \in Ids : credits[i] <= 1

C1_Resight(m) ==
    /\ mpc[m] = "scan_loop"
    /\ mloc[m].todo # <<>>
    /\ RecordsOf(Head(mloc[m].todo).txHash) # {}
    /\ mloc'[m] # mloc[m]

C1_Reverify(v) ==
    /\ vpc[v] = "idle"
    /\ vpc'[v] # "idle"
    /\ RecordsOf(vloc'[v].tx) # {}

C1_Resubmit ==
    /\ \A m \in Monitors : C1_Resight(m) =>
           mpc'[m] # "scan_create" /\ UNCHANGED <<deposits, users, credits>>
    /\ \A v \in Verifiers : C1_Reverify(v) =>
           vpc'[v] = "respond" /\ UNCHANGED <<deposits, users, credits>>

C2_ExactlyOnce ==
    \A i \in Ids :
        /\ credits[i] <= 1
        /\ deposits[i].status = "credited" => credits[i] = 1

\* ---------------------------------------------------------------- C3
\* C3: at most one deposit record exists per txHash, also when the scan loop
\* and the verify handler process the same hash concurrently.
C3_OneRecordPerTx ==
    \A i, j \in Ids : deposits[i].txHash = deposits[j].txHash => i = j

\* ---------------------------------------------------------------- C4
\* the step in which a failure of the crediting step is recorded on record i
C4_FailureRecorded(i) ==
    ~deposits[i].errorMessage /\ deposits'[i].errorMessage

C5_AutoRetry ==
    \A i \in Ids :
        deposits[i].errorMessage =>
            /\ deposits[i].status = "confirmed"
            /\ IsPendingDeposit(deposits[i])
            /\ deposits[i].retryCount >= 3 => i \in alerts

\* ---------------------------------------------------------------- C6
Forward(a, b) ==
    \/ a = b
    \/ a = "pending" /\ b \in {"confirmed", "credited", "failed"}
    \/ a = "confirmed" /\ b \in {"credited", "failed"}

\* the operator's reset: failed back to confirmed, the error cleared
C6_IsReset(i) ==
    /\ deposits[i].status = "failed"
    /\ deposits'[i].status = "confirmed"
    /\ ~deposits'[i].errorMessage

\* C6: the status of a record only moves forward (pending -> confirmed ->
\* credited, or -> failed), except by an operator reset.
C6_ForwardOnly ==
    [][\A i \in Ids :
          Forward(deposits[i].status, deposits'[i].status) \/ C6_IsReset(i)]_vars

\* ---------------------------------------------------------------- C7
\* C7: a record the scanner created with no owner can be claimed through
\* POST /verify: a request for its hash is not turned away as "already
\* processed" while the record has no owner.
C7_Claimable ==
    \A v \in Verifiers :
        (vpc[v] = "respond" /\ vloc[v].resp = "already_processed") =>
            \A i \in RecordsOf(vloc[v].tx) : deposits[i].userId # NoUser

\* ---------------------------------------------------------------- C8
\* C8: for a record with an empty userId no balance increment and no mirror
\* call has happened, no handler is in its crediting step, and its status is
\* neither credited nor failed.
C8_NoOwnerNoCredit ==
    /\ \A i \in Ids :
           deposits[i].userId = NoUser =>
               /\ credits[i] = 0
               /\ mirrors[i] = 0
               /\ deposits[i].status \in {"pending", "confirmed"}
    /\ \A m \in Monitors :
           mpc[m] \in CreditPositions => deposits[mloc[m].cur.id].userId # NoUser

\* a tick has passed over a confirmed record without owner and is crediting
\* a later record
C8_Witness ==
    \E m \in Monitors, i \in Ids :
        /\ mpc[m] \in CreditPositions
        /\ i < mloc[m].cur.id
        /\ deposits[i].userId = NoUser
        /\ deposits[i].status = "confirmed"

\* ---------------------------------------------------------------- C9
\* C9: no record is credited (balance increment or mirror call) while the
\* chain is fewer than 12 blocks past the block of its transaction, in the
\* worker and in the verify handler.
C9_Depth(i) == block - deposits[i].blockNumber >= 12

C9_ConfirmedBeforeCredit ==
    /\ \A i \in Ids : (credits[i] > 0 \/ mirrors[i] > 0) => C9_Depth(i)
    /\ \A m \in Monitors :
           mpc[m] \in {"proc_credit_write", "proc_mirror", "proc_mark"} =>
               C9_Depth(mloc[m].cur.id)
    /\ \A v \in Verifiers :
           vpc[v] \in {"ver_credit_write", "ver_mirror", "ver_mark"} =>
               C9_Depth(vloc[v].id)

\* a record credited when its transaction was exactly 12 blocks deep
C9_Witness ==
    \E i \in Ids :
        /\ credits[i] = 1
        /\ deposits[i].status = "credited"
        /\ block - deposits[i].blockNumber = 12

\* ---------------------------------------------------------------- C10
\* C10: the cursor never decreases, and every scan starts right above the
\* cursor: the range queried is [lastScannedBlock + 1, currentBlock].
C10_CursorContiguous ==
    [][/\ cursor' >= cursor
       /\ \A m \in Monitors :
              (mpc[m] = "scan_block" /\ mpc'[m] = "scan_loop") =>
                  mloc[m].from = cursor + 1]_vars

\* ---------------------------------------------------------------- C11
\* C11: the cursor is moved past a block only after the block was processed:
\* every mined transfer of at least the minimum amount in a block at or
\* below lastScannedBlock has a deposit record.
C11_NoMissedDeposits ==
    \A t \in DOMAIN chain :
        (chain[t].mined /\ chain[t].amount >= 10 /\ chain[t].blockNumber <= cursor)
            => RecordsOf(t) # {}

\* ---------------------------------------------------------------- C12
\* C12: when no handler was aborted and no reset was made, a record that the
\* crediting loop and the verify handler (or two ticks) process concurrently
\* gets at most one balance increment and at most one venue mirror call.
C12_AtMostOneApplies ==
    ~faulted => \A i \in Ids : credits[i] <= 1 /\ mirrors[i] <= 1

\* ---------------------------------------------------------------- C13
\* the amounts creditUserDeposit was asked to add for user u, records i..
RECURSIVE C13_Added(_, _)
C13_Added(u, i) ==
    IF i > Len(deposits) THEN 0
    ELSE (IF deposits[i].userId = u THEN credits[i] * deposits[i].amount ELSE 0)
         + C13_Added(u, i + 1)

\* C13: when each deposit is credited at most once, also by concurrent
\* creditUserDeposit calls for two different deposits of one user, the
\* user's internalBalance and totalDeposits have increased by the sum of the
\* amounts (no lost update).
C13_NoLostUpdate ==
    (\A i \in Ids : credits[i] <= 1) =>
        \A u \in Users :
            /\ users[u].internalBalance = C13_Added(u, 1)
            /\ users[u].totalDeposits = C13_Added(u, 1)

\* ---------------------------------------------------------------- C14
\* the amounts of the credited records of user u, records i..
RECURSIVE C14_CreditedSum(_, _)
C14_CreditedSum(u, i) ==
    IF i > Len(deposits) THEN 0
    ELSE (IF deposits[i].userId = u /\ deposits[i].status = "credited"
          THEN deposits[i].amount ELSE 0)
         + C14_CreditedSum(u, i + 1)

\* C14: whenever no handler is running (and none was aborted, no reset was
\* made), a user's internalBalance equals the sum of the amounts of the
\* user's credited records: no amount of a pending, confirmed or failed
\* record is in the balance.
C14_BalanceIsCredited ==
    (AllIdle /\ ~faulted) =>
        \A u \in Users : users[u].internalBalance = C14_CreditedSum(u, 1)

\* ---------------------------------------------------------------- C15
\* record i has an owner, is not yet credited and its transaction is at
\* least requiredConfirmations deep
C15_Due(i) ==
    /\ i \in Ids
    /\ deposits[i].userId # NoUser
    /\ deposits[i].status \in {"pending", "confirmed"}
    /\ block - deposits[i].blockNumber >= deposits[i].requiredConfirmations

\* record i is credited and the owner's balance holds its amount
C15_Credited(i) ==
    /\ deposits[i].status = "credited"
    /\ credits[i] = 1
    /\ mirrors[i] = 1
    /\ users[deposits[i].userId].internalBalance = deposits[i].amount

C16_Recomputed(m) == ProcUpdate(m)

\* below the threshold: the status of the record is left as it was read and
\* the record is not credited in this tick
C16_BelowThreshold(m) ==
    (C16_Recomputed(m) /\ mloc[m].conf < mloc[m].cur.rec.requiredConfirmations) =>
        /\ deposits'[mloc[m].cur.id].status = mloc[m].cur.rec.status
        /\ mpc'[m] # "proc_credit"
        /\ UNCHANGED <<users, credits, mirrors>>

\* a pending record's count has reached the threshold
C16_Reached(m) ==
    /\ C16_Recomputed(m)
    /\ mloc[m].cur.rec.status = "pending"
    /\ mloc[m].conf >= mloc[m].cur.rec.requiredConfirmations

\* C16 as stated: a record with confirmations = threshold - 1 is neither
\* transitioned nor credited; on the tick where the count reaches the
\* threshold the record becomes confirmed, and that tick does not credit it.
C16_CreditNextTick ==
    [][\A m \in Monitors :
          /\ C16_BelowThreshold(m)
          /\ C16_Reached(m) =>
                 /\ deposits'[mloc[m].cur.id].status = "confirmed"
                 /\ mpc'[m] # "proc_credit"]_vars

\* C16 as amended: a record with confirmations = threshold - 1 is neither
\* transitioned nor credited; on the tick where the count reaches the
\* threshold the record becomes confirmed and the same tick goes on to
\* credit it.
C16_CreditSameTick ==
    [][\A m \in Monitors :
          /\ C16_BelowThreshold(m)
          /\ C16_Reached(m) =>
                 /\ deposits'[mloc[m].cur.id].status = "confirmed"
                 /\ mpc'[m] = "proc_credit"]_vars

\* a tick has just set a pending record to confirmed, at exactly the
\* threshold, and is in the crediting branch for it
C16_Witness ==
    \E m \in Monitors :
        /\ mpc[m] = "proc_credit"
        /\ mloc[m].cur.rec.status = "pending"
        /\ mloc[m].cur.rec.confirmations = mloc[m].cur.rec.requiredConfirmations - 1
        /\ mloc[m].conf = mloc[m].cur.rec.requiredConfirmations
        /\ deposits[mloc[m].cur.id].status = "confirmed"

\* ---------------------------------------------------------------- C17
\* the tick moves on to the record after the head of its list
C17_Skipped(m) ==
    /\ \/ mpc'[m] = "idle"
       \/ mpc'[m] = "proc_loop" /\ mloc'[m].pend = Tail(mloc[m].pend)
    /\ UNCHANGED <<deposits, users, cursor>>

\* the tick holds the head of its list with the count recomputed from the
\* chain
C17_Held(m) ==
    /\ mpc'[m] = "proc_update"
    /\ mloc'[m].cur = Head(mloc[m].pend)
    /\ mloc'[m].conf = block - Head(mloc[m].pend).rec.blockNumber

\* the recomputed count is stored, and a pending record at or above the
\* threshold becomes confirmed
C17_Stored(m) ==
    ProcUpdate(m) =>
        LET s == mloc[m].cur
        IN  /\ deposits'[s.id].confirmations = mloc[m].conf
            /\ (s.rec.status = "pending"
                /\ mloc[m].conf >= s.rec.requiredConfirmations)
                   => deposits'[s.id].status = "confirmed"

\* C17 as stated: a tick recomputes the confirmations of every pending or
\* confirmed record of its list, with or without owner, and sets a pending
\* record whose count has reached the threshold to confirmed.
C17_RecomputeAll ==
    [][\A m \in Monitors :
          /\ ProcGetTx(m) => C17_Held(m)
          /\ C17_Stored(m)]_vars

\* C17 as amended: a tick recomputes the confirmations of every pending or
\* confirmed record of its list that has an owner and whose receipt lookup
\* succeeds, and sets a pending one whose count has reached the threshold to
\* confirmed; a record without owner is passed over untouched.
C17_RecomputeOwned ==
    [][\A m \in Monitors :
          /\ ProcGetTx(m) =>
                 IF Head(mloc[m].pend).rec.userId = NoUser
                 THEN C17_Skipped(m)
                 ELSE C17_Held(m) \/ C17_Skipped(m)
          /\ C17_Stored(m)]_vars

\* a tick ran to its end at the current height and left a record without
\* owner pending, its transaction at least 12 blocks deep
C17_Witness ==
    \E i \in Ids :
        /\ AllIdle /\ ~faulted
        /\ cursor = block
        /\ deposits[i].userId = NoUser
        /\ deposits[i].status = "pending"
        /\ block - deposits[i].blockNumber >= deposits[i].requiredConfirmations

\* ---------------------------------------------------------------- C18
\* transfer t is mined and below 10 USDC
C18_Small(t) == chain[t].mined /\ chain[t].amount < 10

\* C18: a transfer below the minimum amount has no deposit record, whether
\* the scanner sighted it or it was submitted to POST /verify; no record
\* has an amount below the minimum; and while every mined transfer is below
\* the minimum no balance has changed.
C18_BelowMinimumIgnored ==
    /\ \A t \in DOMAIN chain : C18_Small(t) => RecordsOf(t) = {}
    /\ \A i \in Ids : deposits[i].amount >= 10
    /\ (\A t \in DOMAIN chain : chain[t].mined => C18_Small(t)) =>
           \A u \in Users : users[u] = NoUserDoc /\ \A i \in Ids : credits[i] = 0

\* the scanner has moved past the block of a transfer below the minimum and
\* a verify request for it has been turned down
C18_Witness ==
    \E v \in Verifiers :
        /\ vpc[v] = "respond"
        /\ vloc[v].resp = "invalid"
        /\ C18_Small(vloc[v].tx)
        /\ cursor >= chain[vloc[v].tx].blockNumber

\* ---------------------------------------------------------------- C19
\* the receipt lookup of the owned record at the head of m's list fails
C19_LookupFailed(m) ==
    /\ ProcGetTx(m)
    /\ Head(mloc[m].pend).rec.userId # NoUser
    /\ mpc'[m] # "proc_update"

\* the tick goes on with the rest of its list, or returns at its end
C19_Continues(m) ==
    IF Tail(mloc[m].pend) = <<>>
    THEN mpc'[m] = "idle"
    ELSE mpc'[m] = "proc_loop" /\ mloc'[m].pend = Tail(mloc[m].pend)

\* nothing but record id is written
C19_Isolated(id) ==
    /\ cursor' = cursor
    /\ users' = users
    /\ Len(deposits') = Len(deposits)
    /\ \A j \in Ids \ {id} : deposits'[j] = deposits[j]

\* the failure is written on record id of snapshot s
C19_Persisted(s) ==
    /\ deposits'[s.id].errorMessage
    /\ deposits'[s.id].retryCount = s.rec.retryCount + 1

\* C19 as stated: a failure while a tick processes a record (receipt lookup,
\* missing user, credit or mirror) is persisted on that record, the tick
\* continues with the remaining records, and no other record, no balance
\* and not the cursor is changed.
C19_FailurePersisted ==
    [][\A m \in Monitors :
          /\ C19_LookupFailed(m) =>
                 /\ C19_Persisted(Head(mloc[m].pend))
                 /\ C19_Continues(m)
                 /\ C19_Isolated(Head(mloc[m].pend).id)
          /\ ProcFail(m) =>
                 /\ C19_Persisted(mloc[m].cur)
                 /\ C19_Continues(m)
                 /\ C19_Isolated(mloc[m].cur.id)]_vars

\* C19 as amended: a missing user, a credit or a mirror failure is persisted
\* on the record (errorMessage, retryCount); a failed receipt lookup writes
\* nothing at all, the record stays as it is; in both cases the tick
\* continues with the remaining records and no other record, no balance and
\* not the cursor is changed.
C19_FailureContained ==
    [][\A m \in Monitors :
          /\ C19_LookupFailed(m) =>
                 /\ deposits' = deposits
                 /\ C19_Continues(m)
                 /\ C19_Isolated(Head(mloc[m].pend).id)
          /\ ProcFail(m) =>
                 /\ C19_Persisted(mloc[m].cur)
                 /\ C19_Continues(m)
                 /\ C19_Isolated(mloc[m].cur.id)]_vars

\* the crediting of the first of two records of a tick's list has failed
\* and is being handled
C19_Witness ==
    \E m \in Monitors :
        /\ mpc[m] = "proc_fail"
        /\ Len(mloc[m].pend) = 2
        /\ mloc[m].cur = Head(mloc[m].pend)
        /\ credits[mloc[m].cur.id] = 1

\* ---------------------------------------------------------------- C20
\* the venue's last answer was an error with a code of the non-retryable
\* list, as an HTTP error response or as a body with success = false
C20_NonRetryable ==
    /\ req.last.kind \in {"http", "body"}
    /\ req.last.code \in {-1001, -1002, -1004, -1005, -1007}

\* C20: an error with a non-retryable code is thrown after that attempt and
\* not retried, however the venue reports it; an error with any other code
\* is retried while attempts are left.
C20_NonRetryableThrown ==
    /\ C20_NonRetryable => req.pc \in {"thrown", "idle"}
    /\ (req.pc = "thrown" /\ ~C20_NonRetryable) => req.sent = req.max + 1

\* ---------------------------------------------------------------- C21
\* C21: request makes at most maxRetries + 1 attempts for the maxRetries the
\* client was configured with (3 when none was configured); after failed
\* attempt number a (0-based) that is followed by another attempt it sleeps
\* min(1000 * 2^a, 10000) ms; and it throws only at once or after the last
\* attempt.
C21_BoundedAttempts ==
    /\ req.sent <= (IF req.cfg.set THEN req.cfg.value ELSE 3) + 1
    /\ (req.pc = "try" /\ req.attempt > 0) =>
           req.delay = (IF req.attempt > 4 THEN 10000
                        ELSE 1000 * 2^(req.attempt - 1))

\* ---------------------------------------------------------------- C22
\* the venue answered unauthorized with a message that mentions the
\* timestamp or expiry, as an HTTP error response
C22_ClockSkewAnswer ==
    req.last.kind = "http" /\ req.last.code = -1002 /\ req.last.skew

\* C22: an unauthorized error whose message mentions 'timestamp' or
\* 'expired' is thrown at once, and what is thrown is the guidance to check
\* the system clock.
C22_ClockGuidance ==
    C22_ClockSkewAnswer => req.pc = "thrown" /\ req.err = "clock_guidance"

\* ---------------------------------------------------------------- C23
\* the timestamp of call c is more than 300,000 ms from the local time read
\* by the validation
C23_Skewed(c) ==
    \/ auth[c].now - auth[c].timestamp > 300000
    \/ auth[c].timestamp - auth[c].now > 300000

\* C23: a call whose timestamp differs from local time by more than
\* 300,000 ms is rejected by the validation with the timestamp-skew error
\* (which names local time), before a canonical string is built or signed;
\* a call within the window is not rejected.
C23_SkewRejected ==
    \A c \in AuthCalls :
        auth[c].pc \in {"sign", "done", "thrown"} =>
            /\ C23_Skewed(c) <=> auth[c].pc = "thrown"
            /\ auth[c].pc = "thrown" =>
                   /\ auth[c].err = "timestamp_skew"
                   /\ auth[c].canonical = ""
                   /\ auth[c].signature = NoSignature

\* one call rejected at 300,001 ms, another passed at exactly 300,000 ms
C23_Witness ==
    \E c, d \in AuthCalls :
        /\ auth[c].pc = "thrown"
        /\ auth[c].now - auth[c].timestamp = 300001
        /\ auth[d].pc = "done"
        /\ auth[d].now - auth[d].timestamp = 300000

\* C24: a stored key is absent once now > expiresAt. The lookup of an order
\* placement returns no key exactly when nothing is stored or the clock is
\* past expirationTimestamp; a placement whose key was expired at the
\* lookup is refused and has made no venue call; every placement that
\* signed holds a key that was not expired at its lookup.
C24_ExpiredAtCall ==
    ord.keyData.stored /\ ord.lookedAt > ord.keyData.expirationTimestamp

C25_DomainContract ==
    typed.by # "none" =>
        IF typed.primaryType = "Withdraw"
        THEN typed.domain.verifyingContract \in LedgerAddresses
        ELSE typed.domain.verifyingContract = OFF_CHAIN_VERIFYING_CONTRACT

\* the ordered field schemas of the specification
C26_Schema(kind) ==
    CASE kind = "Registration" ->
           <<Field("brokerId", "string"), Field("chainId", "uint256"),
             Field("timestamp", "uint64"),
             Field("registrationNonce", "uint256")>>
      [] kind = "AddOrderlyKey" ->
           <<Field("brokerId", "string"), Field("chainId", "uint256"),
             Field("orderlyKey", "string"), Field("scope", "string"),
             Field("timestamp", "uint64"), Field("expiration", "uint64")>>
      [] kind = "Withdraw" ->
           <<Field("brokerId", "string"), Field("chainId", "uint256"),
             Field("receiver", "address"), Field("token", "string"),
             Field("amount", "uint256"), Field("withdrawNonce", "uint64"),
             Field("timestamp", "uint64")>>
      [] kind = "SettlePnl" ->
           <<Field("brokerId", "string"), Field("chainId", "uint256"),
             Field("settleNonce", "uint64"), Field("timestamp", "uint64")>>

\* C26: every typed-data signature is made over exactly the ordered field
\* schema of its kind: no field added, missing, retyped or reordered, by
\* whichever code path signs it.
C26_SchemaVerbatim ==
    typed.by # "none" => typed.types = C26_Schema(typed.primaryType)

\* two finished calls of generateAuthHeaders, made with the same key
C27_Signed(a, b) == auth[a].pc = "done" /\ auth[b].pc = "done"

C28_PathsDiffer(a, b) ==
    /\ auth[a].pc = "done" /\ auth[b].pc = "done"
    /\ auth[a].method = auth[b].method
    /\ auth[a].body = auth[b].body
    /\ auth[a].timestamp = auth[b].timestamp
    /\ auth[a].path # auth[b].path

\* C28: with method, body, timestamp and key fixed, two requests with
\* distinct paths have distinct canonical strings and distinct signatures.
C28_DistinctPaths ==
    \A a, b \in AuthCalls :
        C28_PathsDiffer(a, b) =>
            /\ auth[a].canonical # auth[b].canonical
            /\ auth[a].signature # auth[b].signature

\* two finished calls with a body that differ in the path alone
C28_Witness ==
    \E a, b \in AuthCalls : C28_PathsDiffer(a, b) /\ auth[a].body # <<>>

\* C29: calculateAccountId is a function of its arguments: two calls with
\* the same address and broker id return the same account id, and two calls
\* with the same address and different broker ids return different ones.
C29_AccountIdFunction ==
    \A a, b \in IdCalls :
        (ids[a].done /\ ids[b].done
         /\ ids[a].walletAddress = ids[b].walletAddress)
        => (ids[a].accountId = ids[b].accountId
            <=> ids[a].brokerId = ids[b].brokerId)

\* two calls for one address, with broker ids 'i' and U+00E9
C29_Witness ==
    /\ ids["i1"].done /\ ids["i2"].done
    /\ ids["i1"].walletAddress = ids["i2"].walletAddress
    /\ ids["i1"].brokerId = <<105>>
    /\ ids["i2"].brokerId = <<233>>
    /\ ids["i1"].accountId # ids["i2"].accountId

\* C30: an exported private key is readable at most once: at most one
\* response to GET /api/export/:secretPath carries the private key of an
\* export, also when two requests are handled concurrently.
C30_ReadAtMostOnce == keyExports.served <= 1

\* C31: tweet replay protection: the command of a tweet is executed at most
\* once, across repeated polls, overlapping invocations of pollTwitter and
\* a failure between the execution and markProcessed.
C31_ExecutedAtMostOnce == \A tw \in TweetIds : OrdersFor(tw) <= 1

\* C32: maxOpenPositions is enforced: no order is placed for a user who
\* has maxOpenPositions open positions already (last is the number of open
\* positions the latest order found).
C32_MaxOpenPositions == trading.last < maxOpenPositions

\* C33 as stated: for every plaintext, decrypt(encrypt(p)) returns exactly p.
C33_RoundTrip ==
    box.pc \in {"opened", "failed"} =>
        box.pc = "opened" /\ box.decrypted = box.plaintext

RECURSIVE C33_WellFormed(_)
\* no unpaired surrogate in the string
C33_WellFormed(units) ==
    IF units = <<>> THEN TRUE
    ELSE IF IsHigh(units[1])
    THEN Len(units) > 1 /\ IsLow(units[2])
         /\ C33_WellFormed(SubSeq(units, 3, Len(units)))
    ELSE ~IsLow(units[1]) /\ C33_WellFormed(Tail(units))

\* C33: for every plaintext that is well-formed UTF-16 (no unpaired
\* surrogate), decrypt(encrypt(p)) returns exactly p.
C33_RoundTripWellFormed ==
    (box.pc \in {"opened", "failed"} /\ C33_WellFormed(box.plaintext)) =>
        box.pc = "opened" /\ box.decrypted = box.plaintext

\* a plaintext of several bytes per character came back
C33_Witness ==
    /\ box.pc = "opened"
    /\ box.plaintext = <<233, 97>>
    /\ box.decrypted = box.plaintext
    /\ box.envelope.iv # <<>>

\* C34: the canonical string of a GET or DELETE request has no body
\* component, whatever body argument generateAuthHeaders was called with.
C34_NoBodyForGet ==
    \A c \in AuthCalls :
        (auth[c].pc = "done" /\ auth[c].method \in {"GET", "DELETE"}) =>
            auth[c].canonical
                = ToString(auth[c].timestamp) \o auth[c].method \o auth[c].path

\* C35: at most one invocation of monitorDeposits is in progress at any
\* time: no tick begins while an earlier one still awaits a call.
C35_SingleTick == Cardinality({m \in Monitors : mpc[m] # "idle"}) <= 1

\* C36: a deposit record has status credited exactly when its orderlyConfirmed
\* flag is true.
C36_CreditedIffConfirmed == \A i \in DOMAIN deposits : (deposits[i].status = "credited") <=> deposits[i].orderlyConfirmed

\* C37: every attempt of an account's order request, retries included, is
\* signed with that account's key and carries that account's id, whatever
\* other placeOrder calls do to the shared client in the meantime.
C37_OwnIdentity == \A o \in placing.sent : o.signer = o.account

\* C38: a confirmation tweet for a pending, unexpired export leads to the
\* key export being created and the pending export marked completed (unless
\* the code expires first), however the export monitor and the tweet
\* listener interleave.
C38_EventuallyExported == (exporting.mentions >= 1 /\ exporting.status = "pending" /\ ~ExportExpired(exporting.expiresAt, exporting.now)) ~> ((exporting.created >= 1 /\ exporting.status = "completed") \/ ExportExpired(exporting.expiresAt, exporting.now))

\* C39: an export code is single-use: a key export is created only while the
\* pending export is still pending; once it is completed or expired no tweet
\* with the code creates another key export.
C39_SingleUse == [][exporting'.created # exporting.created => exporting.status = "pending"]_vars

\* C40: once a registration or key generation has ended, a key that
\* getKeyForAccount returns for the account is one the venue accepted
\* through AddOrderlyKey.
C40_StoredKeyAccepted == (keygen.pc = "idle" /\ getKeyForAccount(keys, clock) # NoKey) => keygen.stored \in keygen.accepted

====
